---- MODULE Spec2Model ----
(***************************************************************************)
(* Installation and registry subsystem of agent-skills-manager:            *)
(* installer.ts, repository-manager.ts, update-detector.ts (part_001) and  *)
(* skill-registry.ts (part_003).                                           *)
(*                                                                         *)
(* Strings are sequences of one-character strings, so that the string      *)
(* functions of the code (toLowerCase, replace, substring, startsWith,     *)
(* path.normalize, path.resolve, path.join, path.relative) are computed    *)
(* character by character as the code computes them.  Paths are POSIX.     *)
(***************************************************************************)
EXTENDS Integers, Sequences, FiniteSets, TLC

VARIABLES
    arg,        \* the input of the pure function under check (SanSpec, PathSpec)
    ret,        \* its result, or NoRet before the call
    fs,         \* the filesystem: path -> node (directory tree or symbolic link)
    lock,       \* the content of ~/.agents/.skill-lock.json, or NoFile
    last,       \* the last operation called with its inputs and its result
    steps,      \* number of operations performed so far
    clock,      \* the time the last `new Date()` returned
    procs,      \* the registry operations in flight, one per process (RaceSpec)
    remote      \* the repository at the source URL (UpdSpec)

vars == <<arg, ret, fs, lock, last, steps, clock, procs, remote>>

\* ------------------------------------------------------------------------
\* Bounds of the model
\* ------------------------------------------------------------------------
MaxTail == 3        \* free characters after the padding of a raw name
MaxSegs == 3        \* segments of a candidate path
MaxSteps == 2       \* operations in one behaviour of the filesystem machine
MaxClock == 4       \* the latest time `new Date()` returns

\* ------------------------------------------------------------------------
\* Characters and strings
\* ------------------------------------------------------------------------
LowerSeq == << "a","b","c","d","e","f","g","h","i","j","k","l","m",
               "n","o","p","q","r","s","t","u","v","w","x","y","z" >>
UpperSeq == << "A","B","C","D","E","F","G","H","I","J","K","L","M",
               "N","O","P","Q","R","S","T","U","V","W","X","Y","Z" >>
Lower == { LowerSeq[i] : i \in 1..26 }
Upper == { UpperSeq[i] : i \in 1..26 }
Digit == { "0","1","2","3","4","5","6","7","8","9" }

Min(a, b) == IF a < b THEN a ELSE b
Max(a, b) == IF a > b THEN a ELSE b

\* String.prototype.startsWith
startsWith(s, prefix) ==
    /\ Len(prefix) <= Len(s)
    /\ SubSeq(s, 1, Len(prefix)) = prefix

\* String.prototype.substring(0, n)
substring0(s, n) == SubSeq(s, 1, Min(Len(s), n))

\* String.prototype.toLowerCase on the characters of the model
toLowerChar(c) ==
    IF c \in Upper THEN LowerSeq[CHOOSE i \in 1..26 : UpperSeq[i] = c] ELSE c

toLowerCase(s) == [i \in 1..Len(s) |-> toLowerChar(s[i])]

\* String.prototype.replace(/\\/g, '/')
backslashToSlash(s) == [i \in 1..Len(s) |-> IF s[i] = "\\" THEN "/" ELSE s[i]]

\* the positions 1..Len(s) as a sequence
Indices(s) == [i \in 1..Len(s) |-> i]

\* ------------------------------------------------------------------------
\* installer.ts: sanitizeName
\* ------------------------------------------------------------------------
MaxNameLen == 255

FallbackName == << "u","n","n","a","m","e","d","-","s","k","i","l","l" >>

\* the character class [a-z0-9._]
NameChars == Lower \cup Digit \cup { ".", "_" }

IsNameChar(c) == c \in NameChars

\* a replacement whose character class lets the separator through
replaceRuns_keepsSlash(s) ==
    LET kept == SelectSeq(Indices(s),
                    LAMBDA i : IsNameChar(s[i]) \/ s[i] = "/" \/ i = 1
                               \/ IsNameChar(s[i-1]) \/ s[i-1] = "/")
    IN  [k \in 1..Len(kept) |->
            IF IsNameChar(s[kept[k]]) \/ s[kept[k]] = "/" THEN s[kept[k]] ELSE "-"]

\* .replace(/[^a-z0-9._]+/g, '-'): every maximal run of other characters
\* becomes one hyphen
replaceRuns(s) ==
    LET kept == SelectSeq(Indices(s),
                    LAMBDA i : IsNameChar(s[i]) \/ i = 1 \/ IsNameChar(s[i-1]))
    IN  [k \in 1..Len(kept) |-> IF IsNameChar(s[kept[k]]) THEN s[kept[k]] ELSE "-"]

\* .replace(/^[.\-]+|[.\-]+$/g, ''): the leading and the trailing run of
\* dots and hyphens are removed
stripEnds(s) ==
    LET inner == { i \in 1..Len(s) : s[i] \notin {".", "-"} }
    IN  IF inner = {} THEN << >>
        ELSE SubSeq(s, CHOOSE i \in inner : \A j \in inner : i <= j,
                       CHOOSE i \in inner : \A j \in inner : i >= j)

\* the value of the local `sanitized`
sanitizedOf(name) == stripEnds(replaceRuns(toLowerCase(name)))

\* a sanitizeName that forgets the truncation
sanitizeName_noTruncate(name) ==
    LET sanitized == sanitizedOf(name)
    IN  IF sanitized = << >> THEN FallbackName ELSE sanitized

sanitizeName(name) ==
    LET sanitized == sanitizedOf(name)
        cut == substring0(sanitized, MaxNameLen)
    IN  IF cut = << >> THEN FallbackName ELSE cut

\* ------------------------------------------------------------------------
\* path (POSIX): normalize, resolve, join, dirname, basename, relative
\* ------------------------------------------------------------------------
\* process.cwd()
ProcessCwd == << "/", "w" >>

\* the pieces of s between the separators (empty pieces included)
Split(s) ==
    LET seps == SelectSeq(Indices(s), LAMBDA i : s[i] = "/")
        cuts == << 0 >> \o seps \o << Len(s) + 1 >>
    IN  [k \in 1..(Len(cuts) - 1) |-> SubSeq(s, cuts[k] + 1, cuts[k+1] - 1)]

RECURSIVE JoinSegs(_)
JoinSegs(segs) ==
    IF segs = << >> THEN << >>
    ELSE IF Len(segs) = 1 THEN segs[1]
    ELSE segs[1] \o << "/" >> \o JoinSegs(Tail(segs))

\* normalizeString of node's path module, on the list of pieces
RECURSIVE normalizeSegs(_, _, _)
normalizeSegs(segs, allowAboveRoot, acc) ==
    IF segs = << >> THEN acc
    ELSE LET seg == Head(segs)
             rest == Tail(segs)
         IN  IF seg = << >> \/ seg = << "." >>
                 THEN normalizeSegs(rest, allowAboveRoot, acc)
             ELSE IF seg = << ".", "." >>
                 THEN IF acc # << >> /\ acc[Len(acc)] # << ".", "." >>
                          THEN normalizeSegs(rest, allowAboveRoot, SubSeq(acc, 1, Len(acc) - 1))
                      ELSE IF allowAboveRoot
                          THEN normalizeSegs(rest, allowAboveRoot, Append(acc, seg))
                      ELSE normalizeSegs(rest, allowAboveRoot, acc)
             ELSE normalizeSegs(rest, allowAboveRoot, Append(acc, seg))

isAbsolute(p) == p # << >> /\ p[1] = "/"

normalize(p) ==
    IF p = << >> THEN << "." >>
    ELSE LET abs == isAbsolute(p)
             trailingSep == p[Len(p)] = "/"
             body == JoinSegs(normalizeSegs(Split(p), ~abs, << >>))
         IN  IF body = << >>
                 THEN IF abs THEN << "/" >>
                      ELSE IF trailingSep THEN << ".", "/" >> ELSE << "." >>
             ELSE (IF abs THEN << "/" >> ELSE << >>) \o body
                  \o (IF trailingSep THEN << "/" >> ELSE << >>)

\* the segments of the absolute path p resolves to
resolveSegs(p) ==
    LET full == IF isAbsolute(p) THEN p ELSE ProcessCwd \o << "/" >> \o p
    IN  normalizeSegs(Split(full), FALSE, << >>)

resolve(p) == << "/" >> \o JoinSegs(resolveSegs(p))

\* resolve(from, to)
resolve2(from, to) ==
    IF isAbsolute(to) THEN resolve(to)
    ELSE IF to = << >> THEN resolve(from)
    ELSE resolve(from \o << "/" >> \o to)

join2(a, b) ==
    IF a = << >> /\ b = << >> THEN << "." >>
    ELSE IF a = << >> THEN normalize(b)
    ELSE IF b = << >> THEN normalize(a)
    ELSE normalize(a \o << "/" >> \o b)

join3(a, b, c) == join2(join2(a, b), c)

\* dirname and basename of a path without trailing separator
dirname(p) ==
    LET seps == { i \in 1..Len(p) : p[i] = "/" }
    IN  IF seps = {} THEN << "." >>
        ELSE LET lastSep == CHOOSE i \in seps : \A j \in seps : i >= j
             IN  IF lastSep = 1 THEN << "/" >> ELSE SubSeq(p, 1, lastSep - 1)

basename(p) ==
    LET seps == { i \in 1..Len(p) : p[i] = "/" }
    IN  IF seps = {} THEN p
        ELSE SubSeq(p, (CHOOSE i \in seps : \A j \in seps : i >= j) + 1, Len(p))

\* length of the longest common prefix of two lists of segments
RECURSIVE commonLen(_, _)
commonLen(a, b) ==
    IF a = << >> \/ b = << >> THEN 0
    ELSE IF Head(a) # Head(b) THEN 0
    ELSE 1 + commonLen(Tail(a), Tail(b))

relative(from, to) ==
    LET f == resolveSegs(from)
        t == resolveSegs(to)
        c == commonLen(f, t)
        ups == [i \in 1..(Len(f) - c) |-> << ".", "." >>]
    IN  JoinSegs(ups \o SubSeq(t, c + 1, Len(t)))

\* ------------------------------------------------------------------------
\* installer.ts and skill-registry.ts: the two isPathSafe predicates
\* ------------------------------------------------------------------------
\* installer.ts
isPathSafe(basePath, targetPath) ==
    LET normalizedBase == normalize(resolve(basePath))
        normalizedTarget == normalize(resolve(targetPath))
    IN  \/ startsWith(normalizedTarget, normalizedBase \o << "/" >>)
        \/ normalizedTarget = normalizedBase

\* skill-registry.ts
isPathSafeRegistry(basePath, targetPath) ==
    LET normalizedBase == backslashToSlash(basePath)
        normalizedTarget == backslashToSlash(targetPath)
    IN  \/ startsWith(normalizedTarget, normalizedBase \o << "/" >>)
        \/ normalizedTarget = normalizedBase

\* ------------------------------------------------------------------------
\* The filesystem
\*
\* fs maps an absolute path to a node.  A skill directory (source, canonical
\* or agent) is one node that carries its whole tree in `entries`; the
\* directories above it are nodes of their own, created by mkdir recursive,
\* and their children are the paths one segment below them.  A symbolic link
\* keeps the text it was created with in `target`.
\* ------------------------------------------------------------------------
Undefined == << "undefined" >>

EmptyEntries == [n \in {} |-> 0]

NoContent == [name |-> << >>, description |-> << >>, body |-> 0]

File(c) == [isDirectory |-> FALSE, content |-> c, entries |-> EmptyEntries]
SubDir(e) == [isDirectory |-> TRUE, content |-> NoContent, entries |-> e]

Dir(e) == [kind |-> "dir", entries |-> e, target |-> << >>]
Link(t) == [kind |-> "link", entries |-> EmptyEntries, target |-> t]

Put(f, k, v) == [x \in (DOMAIN f) \cup {k} |-> IF x = k THEN v ELSE f[x]]

\* fs.rm(path, { recursive: true, force: true }): the entry and all below it
rm(fsys, path) ==
    [k \in { k \in DOMAIN fsys : k # path /\ ~startsWith(k, path \o << "/" >>) } |-> fsys[k]]

\* where a path leads once the links on it are followed (links sit at
\* skill-directory level only; a chain longer than MaxHops is a loop)
MaxHops == 3

RECURSIVE follow(_, _, _)
follow(fsys, path, hops) ==
    IF path \notin DOMAIN fsys THEN Undefined
    ELSE IF fsys[path].kind # "link" THEN path
    ELSE IF hops = 0 THEN Undefined
    ELSE follow(fsys, resolve2(dirname(path), fsys[path].target), hops - 1)

realpath(fsys, path) == follow(fsys, path, MaxHops)

\* fs.stat succeeds (links followed); fs.lstat succeeds (links not followed)
statOk(fsys, path) == realpath(fsys, path) # Undefined
lstatOk(fsys, path) == path \in DOMAIN fsys

\* fs.mkdir(path, { recursive: true }) of an absolute path: creates the
\* missing directories of the chain, the parents first; an existing
\* directory (or link to one) is left as it is
RECURSIVE mkdir(_, _)
mkdir(fsys, path) ==
    IF path \in DOMAIN fsys \/ path = << "/" >> THEN fsys
    ELSE Put(mkdir(fsys, dirname(path)), path, Dir(EmptyEntries))

\* the tree of the directory a path leads to
treeAt(fsys, path) == fsys[realpath(fsys, path)].entries

\* fs.readdir(path, { withFileTypes: true }) of a directory above the skill
\* directories: the names one segment below it, each with the type of the
\* entry itself (a link is not a directory)
readdir(fsys, path) ==
    { [name |-> basename(k), isDirectory |-> fsys[k].kind = "dir"] :
        k \in { k \in DOMAIN fsys : k # << "/" >> /\ dirname(k) = path } }

\* ------------------------------------------------------------------------
\* installer.ts: getCanonicalSkillsDir, cleanAndCreateDirectory,
\* createSymlink, isExcluded, copyDirectory
\* ------------------------------------------------------------------------
\* os.homedir(), os.tmpdir()
HomeDir == << "/", "h" >>
TmpDir == << "/", "t" >>

AGENTS_DIR == << ".", "a", "g", "e", "n", "t", "s" >>
SKILLS_SUBDIR == << "s", "k", "i", "l", "l", "s" >>
SKILL_MD == << "S", "K", "I", "L", "L", ".", "m", "d" >>

\* `options.cwd || process.cwd()`
cwdOr(cwd) == IF cwd = Undefined \/ cwd = << >> THEN ProcessCwd ELSE cwd

getCanonicalSkillsDir(global, cwd) ==
    join3(IF global THEN HomeDir ELSE cwdOr(cwd), AGENTS_DIR, SKILLS_SUBDIR)

resolveSymlinkTarget(linkPath, linkTarget) == resolve2(dirname(linkPath), linkTarget)

\* a cleanAndCreateDirectory that leaves a directory it finds as it is
cleanAndCreateDirectory_noClear(fsys, path) ==
    IF path \in DOMAIN fsys /\ fsys[path].kind = "dir" THEN fsys
    ELSE mkdir(rm(fsys, path), path)

cleanAndCreateDirectory(fsys, path) == mkdir(rm(fsys, path), path)

\* a createSymlink that takes any link found at linkPath for the right one
createSymlink_keepsAnyLink(fsys, target, linkPath, symlinkOk) ==
    IF resolve(target) = resolve(linkPath) THEN [ok |-> TRUE, fs |-> fsys]
    ELSE IF lstatOk(fsys, linkPath) /\ fsys[linkPath].kind = "link"
        THEN [ok |-> TRUE, fs |-> fsys]
    ELSE LET removed == rm(fsys, linkPath)
             made == mkdir(removed, dirname(linkPath))
         IN  IF symlinkOk
                 THEN [ok |-> TRUE,
                       fs |-> Put(made, linkPath, Link(relative(dirname(linkPath), target)))]
             ELSE [ok |-> FALSE, fs |-> made]

\* createSymlink: [ok, fs].  symlinkOk is whether the symlink system call is
\* going to succeed (it fails on a filesystem without links, or without the
\* privilege to create them)
createSymlink(fsys, target, linkPath, symlinkOk) ==
    LET resolvedTarget == resolve(target)
        resolvedLinkPath == resolve(linkPath)
    IN  IF resolvedTarget = resolvedLinkPath THEN [ok |-> TRUE, fs |-> fsys]
        ELSE IF /\ lstatOk(fsys, linkPath)
                /\ fsys[linkPath].kind = "link"
                /\ resolveSymlinkTarget(linkPath, fsys[linkPath].target) = resolvedTarget
            THEN [ok |-> TRUE, fs |-> fsys]
        ELSE LET removed == IF lstatOk(fsys, linkPath) THEN rm(fsys, linkPath) ELSE fsys
                 linkDir == dirname(linkPath)
                 made == mkdir(removed, linkDir)
                 relativePath == relative(linkDir, target)
             IN  IF symlinkOk
                     THEN [ok |-> TRUE, fs |-> Put(made, linkPath, Link(relativePath))]
                 ELSE [ok |-> FALSE, fs |-> made]

EXCLUDE_FILES == { << "R","E","A","D","M","E",".","m","d" >>,
                   << "m","e","t","a","d","a","t","a",".","j","s","o","n" >> }
EXCLUDE_DIRS == { << ".", "g", "i", "t" >> }

\* an isExcluded that leaves out files named .git too
isExcluded_anyGit(name, isDirectory) ==
    \/ name \in EXCLUDE_FILES
    \/ startsWith(name, << "_" >>)
    \/ name \in EXCLUDE_DIRS

isExcluded(name, isDirectory) ==
    \/ name \in EXCLUDE_FILES
    \/ startsWith(name, << "_" >>)
    \/ (isDirectory /\ name \in EXCLUDE_DIRS)

\* the tree of dest after copyDirectory(src, dest): the entries of src that
\* are not excluded are written over what dest holds, directories recursively
RECURSIVE copyTree(_, _)
copyTree(src, dest) ==
    LET copied == { n \in DOMAIN src : ~isExcluded(n, src[n].isDirectory) }
    IN  [n \in (DOMAIN dest) \cup copied |->
            IF n \notin copied THEN dest[n]
            ELSE IF src[n].isDirectory
                THEN SubDir(copyTree(src[n].entries,
                        IF n \in DOMAIN dest /\ dest[n].isDirectory
                            THEN dest[n].entries ELSE EmptyEntries))
            ELSE File(src[n].content)]

\* copyDirectory: [ok, fs]; readdir of a missing source throws after dest
\* has been created
copyDirectory(fsys, src, dest) ==
    LET made == mkdir(fsys, dest)
        real == realpath(made, dest)
    IN  IF ~statOk(made, src) \/ made[realpath(made, src)].kind # "dir"
            THEN [ok |-> FALSE, fs |-> made]
        ELSE [ok |-> TRUE,
              fs |-> Put(made, real, Dir(copyTree(treeAt(made, src), made[real].entries)))]

\* ------------------------------------------------------------------------
\* agents.ts: the table of agents, three of the forty-two: one with a
\* directory of its own in both scopes, one whose project directory is the
\* canonical one, one without global directory (its project directory is
\* taken to be a directory of its own)
\* ------------------------------------------------------------------------
AgentTypes == { "cursor", "amp", "replit" }

agents ==
    [a \in AgentTypes |->
        CASE a = "cursor" ->
                [skillsDir |-> << ".","c","u","r","s","o","r","/","s","k","i","l","l","s" >>,
                 globalSkillsDir |-> << "/","h","/",".","c","u","r","s","o","r","/","s","k","i","l","l","s" >>]
          [] a = "amp" ->
                [skillsDir |-> << ".","a","g","e","n","t","s","/","s","k","i","l","l","s" >>,
                 globalSkillsDir |-> << "/","h","/",".","c","o","n","f","i","g","/","a","g","e","n","t","s","/","s","k","i","l","l","s" >>]
          [] a = "replit" ->
                [skillsDir |-> << ".","r","e","p","l","i","t","/","s","k","i","l","l","s" >>,
                 globalSkillsDir |-> Undefined]]

\* ------------------------------------------------------------------------
\* installer.ts: installSkillForAgent
\* ------------------------------------------------------------------------
ErrUnsupportedScope == "does not support global skill installation"
ErrPathTraversal == "Invalid skill name: potential path traversal detected"
ErrIo == "ENOENT"

Result(success, path, canonicalPath, mode, symlinkFailed, error) ==
    [success |-> success, path |-> path, canonicalPath |-> canonicalPath,
     mode |-> mode, symlinkFailed |-> symlinkFailed, error |-> error]

\* `options.mode ?? 'symlink'`
modeOr(mode) == IF mode = "undefined" THEN "symlink" ELSE mode

\* the base directory of an agent, for a scope that the agent supports
agentBaseOf(agentType, isGlobal, cwd) ==
    IF isGlobal THEN agents[agentType].globalSkillsDir
    ELSE join2(cwd, agents[agentType].skillsDir)

\* a catch that hands on the message of an error that has none
IoFailure_noMessage(fsys, agentDir, installMode) ==
    [fs |-> fsys, result |-> Result(FALSE, agentDir, Undefined, installMode, FALSE, "")]

\* the catch of installSkillForAgent: what was written stays
IoFailure(fsys, agentDir, installMode) ==
    [fs |-> fsys, result |-> Result(FALSE, agentDir, Undefined, installMode, FALSE, ErrIo)]

\* copy mode: the agent directory is cleared and populated
copyInstall(fsys, skill, agentDir, installMode) ==
    LET c == copyDirectory(cleanAndCreateDirectory(fsys, agentDir), skill.path, agentDir)
    IN  IF c.ok
            THEN [fs |-> c.fs, result |-> Result(TRUE, agentDir, Undefined, "copy", FALSE, "")]
        ELSE IoFailure(c.fs, agentDir, installMode)

\* a fallback that copies into the canonical directory once more
fallbackInstall_intoCanonical(fsys, skill, canonicalDir, agentDir, installMode) ==
    LET f == copyDirectory(cleanAndCreateDirectory(fsys, canonicalDir), skill.path, canonicalDir)
    IN  IF f.ok
            THEN [fs |-> f.fs,
                  result |-> Result(TRUE, agentDir, canonicalDir, "symlink", TRUE, "")]
        ELSE IoFailure(f.fs, agentDir, installMode)

\* the link could not be created: the agent directory gets a copy of its own
fallbackInstall(fsys, skill, canonicalDir, agentDir, installMode) ==
    LET f == copyDirectory(cleanAndCreateDirectory(fsys, agentDir), skill.path, agentDir)
    IN  IF f.ok
            THEN [fs |-> f.fs,
                  result |-> Result(TRUE, agentDir, canonicalDir, "symlink", TRUE, "")]
        ELSE IoFailure(f.fs, agentDir, installMode)

\* link mode: the canonical directory is cleared and populated, then linked
linkInstall(fsys, skill, canonicalDir, agentDir, installMode, symlinkOk) ==
    LET c == copyDirectory(cleanAndCreateDirectory(fsys, canonicalDir), skill.path, canonicalDir)
    IN  IF ~c.ok THEN IoFailure(c.fs, agentDir, installMode)
        ELSE LET l == createSymlink(c.fs, canonicalDir, agentDir, symlinkOk)
             IN  IF l.ok
                     THEN [fs |-> l.fs,
                           result |-> Result(TRUE, agentDir, canonicalDir, "symlink", FALSE, "")]
                 ELSE fallbackInstall(l.fs, skill, canonicalDir, agentDir, installMode)

\* a try block that populates the canonical directory in copy mode too
installInto_canonicalAlways(fsys, skill, canonicalDir, agentDir, installMode, symlinkOk) ==
    IF installMode = "copy"
        THEN copyInstall(copyDirectory(cleanAndCreateDirectory(fsys, canonicalDir),
                                       skill.path, canonicalDir).fs,
                         skill, agentDir, installMode)
    ELSE linkInstall(fsys, skill, canonicalDir, agentDir, installMode, symlinkOk)

\* the try block of installSkillForAgent: [fs, result]
installInto(fsys, skill, canonicalDir, agentDir, installMode, symlinkOk) ==
    IF installMode = "copy" THEN copyInstall(fsys, skill, agentDir, installMode)
    ELSE linkInstall(fsys, skill, canonicalDir, agentDir, installMode, symlinkOk)

\* `isGlobal && agent.globalSkillsDir === undefined`
unsupportedScope(agentType, isGlobal) ==
    isGlobal /\ agents[agentType].globalSkillsDir = Undefined

\* `skill.name || basename(skill.path)`, sanitized
skillNameOf(skill) ==
    sanitizeName(IF skill.name # << >> THEN skill.name ELSE basename(skill.path))

canonicalDirOf(skill, isGlobal, cwd) ==
    join2(getCanonicalSkillsDir(isGlobal, cwd), skillNameOf(skill))

agentDirOf(skill, agentType, isGlobal, cwd) ==
    join2(agentBaseOf(agentType, isGlobal, cwd), skillNameOf(skill))

\* installSkillForAgent once the scope is known to be supported: the two
\* path checks, then the try block
installSupported(fsys, skill, agentType, isGlobal, cwd, installMode, symlinkOk) ==
    LET canonicalBase == getCanonicalSkillsDir(isGlobal, cwd)
        canonicalDir == canonicalDirOf(skill, isGlobal, cwd)
        agentBase == agentBaseOf(agentType, isGlobal, cwd)
        agentDir == agentDirOf(skill, agentType, isGlobal, cwd)
    IN  IF ~isPathSafe(canonicalBase, canonicalDir)
            THEN [fs |-> fsys,
                  result |-> Result(FALSE, agentDir, Undefined, installMode,
                                    FALSE, ErrPathTraversal)]
        ELSE IF ~isPathSafe(agentBase, agentDir)
            THEN [fs |-> fsys,
                  result |-> Result(FALSE, agentDir, Undefined, installMode,
                                    FALSE, ErrPathTraversal)]
        ELSE installInto(fsys, skill, canonicalDir, agentDir, installMode, symlinkOk)

\* an installSkillForAgent that, like getInstallPath, uses the project
\* directory of an agent without global directory
installSkillForAgent_projectFallback(fsys, skill, agentType, options, symlinkOk) ==
    installSupported(fsys, skill, agentType,
                     options.global /\ agents[agentType].globalSkillsDir # Undefined,
                     cwdOr(options.cwd), modeOr(options.mode), symlinkOk)

\* options = [global, cwd, mode]; [fs, result]
installSkillForAgent(fsys, skill, agentType, options, symlinkOk) ==
    LET isGlobal == options.global
        cwd == cwdOr(options.cwd)
        installMode == modeOr(options.mode)
    IN  IF unsupportedScope(agentType, isGlobal)
            THEN [fs |-> fsys,
                  result |-> Result(FALSE, << >>, Undefined, installMode, FALSE,
                                    ErrUnsupportedScope)]
        ELSE installSupported(fsys, skill, agentType, isGlobal, cwd, installMode, symlinkOk)

\* ------------------------------------------------------------------------
\* skill-registry.ts: the lock file
\* ------------------------------------------------------------------------
CURRENT_VERSION == 3

\* a value the model does not look into (a URL, a hash): a one-element
\* sequence, so that it compares with Undefined
Opaque(tag) == << tag >>

NoEntries == [n \in {} |-> 0]

\* SkillLockEntry; the times are positive numbers
Entry(metadata, installedAt, updatedAt) ==
    [source |-> metadata.source, sourceType |-> metadata.sourceType,
     sourceUrl |-> metadata.sourceUrl, skillPath |-> metadata.skillPath,
     skillFolderHash |-> metadata.skillFolderHash,
     gitCommitHash |-> metadata.gitCommitHash,
     installedAt |-> installedAt, updatedAt |-> updatedAt]

\* `null`, and the `undefined` of a lookup that finds nothing
NullEntry ==
    [source |-> Undefined, sourceType |-> Undefined, sourceUrl |-> Undefined,
     skillPath |-> Undefined, skillFolderHash |-> Undefined,
     gitCommitHash |-> Undefined, installedAt |-> 0, updatedAt |-> 0]

\* SkillLockFile in memory.  skillsKind is "map" for an object of entries
\* and "other" for a value that is truthy and no object (a string, a
\* number, true); skills is then NoEntries.  An optional field that is not
\* there is Undefined (lastSelectedAgents) or "undefined" (dismissed).
Doc(version, skillsKind, skills, lastSelectedAgents, dismissed) ==
    [version |-> version, skillsKind |-> skillsKind, skills |-> skills,
     lastSelectedAgents |-> lastSelectedAgents, dismissed |-> dismissed]

createEmptyLockFile == Doc(CURRENT_VERSION, "map", NoEntries, Undefined, "undefined")

\* The lock file on disk: missing, or a text.  json is "invalid" when
\* JSON.parse rejects the text, "null" when it yields null, "value"
\* otherwise; versionIsNumber is typeof parsed.version === 'number';
\* skillsKind is "absent" when parsed has no skills, "falsy" when skills is
\* null, false, 0 or '', else as for Doc.
FileOf(json, versionIsNumber, version, skillsKind, skills, lastSelectedAgents, dismissed) ==
    [missing |-> FALSE, json |-> json, versionIsNumber |-> versionIsNumber,
     version |-> version, skillsKind |-> skillsKind, skills |-> skills,
     lastSelectedAgents |-> lastSelectedAgents, dismissed |-> dismissed]

\* a readSkillLock that hands every parsed document on
readSkillLock_noVersionCheck(file) ==
    IF file.missing THEN createEmptyLockFile
    ELSE IF file.json # "value" THEN createEmptyLockFile
    ELSE Doc(file.version, file.skillsKind, file.skills, file.lastSelectedAgents,
             file.dismissed)

\* readSkillLock: readFile throws on a missing file, JSON.parse on invalid
\* text, `parsed.version` on null; the catch returns the empty document
readSkillLock(file) ==
    IF file.missing THEN createEmptyLockFile
    ELSE IF file.json # "value" THEN createEmptyLockFile
    ELSE IF ~file.versionIsNumber \/ file.skillsKind \in { "absent", "falsy" }
        THEN createEmptyLockFile
    ELSE IF file.version < CURRENT_VERSION THEN createEmptyLockFile
    ELSE Doc(file.version, file.skillsKind, file.skills, file.lastSelectedAgents,
             file.dismissed)

\* writeSkillLock: JSON.stringify of the document, written over the file
writeSkillLock(doc) ==
    FileOf("value", TRUE, doc.version, doc.skillsKind, doc.skills,
           doc.lastSelectedAgents, doc.dismissed)

\* `lock.skills[key]`, Undefined as NullEntry
entryAt(doc, key) ==
    IF doc.skillsKind = "map" /\ key \in DOMAIN doc.skills THEN doc.skills[key]
    ELSE NullEntry

\* `lock.skills[skillName] = {...}` throws a TypeError (strict mode) when
\* skills is a primitive value
addThrows(doc) == doc.skillsKind # "map"

\* an addSkillToLock that stamps installedAt anew on every call
addedTo_freshInstalledAt(doc, skillName, metadata, now) ==
    [doc EXCEPT !.skills = Put(doc.skills, skillName, Entry(metadata, now, now))]

\* the document of addSkillToLock before it is written: the entry is put
\* under skillName as given; `installedAt || now` keeps a time that is there
addedTo(doc, skillName, metadata, now) ==
    LET old == entryAt(doc, skillName)
        installedAt == IF old.installedAt # 0 THEN old.installedAt ELSE now
    IN  [doc EXCEPT !.skills = Put(doc.skills, skillName, Entry(metadata, installedAt, now))]

\* addSkillToLock: the file after the call
addSkillToLock(file, skillName, metadata, now) ==
    LET doc == readSkillLock(file)
    IN  IF addThrows(doc) THEN file
        ELSE writeSkillLock(addedTo(doc, skillName, metadata, now))

\* getLastSelectedAgents
getLastSelectedAgents(file) == readSkillLock(file).lastSelectedAgents

\* the document of saveSelectedAgents before it is written
agentsSavedTo(doc, agentTypes) == [doc EXCEPT !.lastSelectedAgents = agentTypes]

\* saveSelectedAgents: the file after the call
saveSelectedAgents(file, agentTypes) ==
    writeSkillLock(agentsSavedTo(readSkillLock(file), agentTypes))

\* getSkillLockEntry: `lock.skills[sanitized] || null`
getSkillLockEntry(file, skillName) ==
    entryAt(readSkillLock(file), sanitizeName(skillName))

\* a removeSkillFromLock that writes an empty map of entries
removedFrom_all(doc, skillName) ==
    IF doc.skillsKind # "map" THEN doc ELSE [doc EXCEPT !.skills = NoEntries]

\* the document of removeSkillFromLock before it is written
removedFrom(doc, skillName) ==
    IF doc.skillsKind # "map" THEN doc
    ELSE LET sanitized == sanitizeName(skillName)
         IN  [doc EXCEPT !.skills =
                 [k \in (DOMAIN doc.skills) \ { sanitized } |-> doc.skills[k]]]

\* removeSkillFromLock: the file after the call
removeSkillFromLock(file, skillName) ==
    writeSkillLock(removedFrom(readSkillLock(file), skillName))

\* ------------------------------------------------------------------------
\* skill-registry.ts: parseSkillMd, listInstalledSkills
\* ------------------------------------------------------------------------
NullSkill == [name |-> << >>, description |-> << >>]

\* the descriptor of the skill directory at a path, NullSkill when the file
\* is missing or lacks name or description
parseSkillMd(fsys, skillDir) ==
    IF ~statOk(fsys, skillDir) THEN NullSkill
    ELSE LET tree == treeAt(fsys, skillDir)
         IN  IF SKILL_MD \notin DOMAIN tree \/ tree[SKILL_MD].isDirectory THEN NullSkill
             ELSE IF tree[SKILL_MD].content.name = << >>
                     \/ tree[SKILL_MD].content.description = << >> THEN NullSkill
             ELSE [name |-> tree[SKILL_MD].content.name,
                   description |-> tree[SKILL_MD].content.description]

Whitespace == { " ", "\t" }

\* name.toLowerCase().replace(/\s+/g, '-').replace(/[\/\\:\0]/g, '')
looseSlug(name) ==
    LET low == toLowerCase(name)
        kept == SelectSeq(Indices(low),
                    LAMBDA i : low[i] \notin Whitespace \/ i = 1 \/ low[i-1] \notin Whitespace)
        hyphened == [k \in 1..Len(kept) |->
                        IF low[kept[k]] \in Whitespace THEN "-" ELSE low[kept[k]]]
    IN  SelectSeq(hyphened, LAMBDA c : c \notin { "/", "\\", ":" })

\* one of the names is a directory (or link to one) under the agent base
foundByName(fsys, agentBase, possibleNames) ==
    \E possibleName \in possibleNames :
        LET agentSkillDir == join2(agentBase, possibleName)
        IN  isPathSafeRegistry(agentBase, agentSkillDir) /\ statOk(fsys, agentSkillDir)

\* some directory under the agent base declares the same name
foundByScan(fsys, agentBase, declaredName) ==
    /\ statOk(fsys, agentBase)
    /\ \E agentEntry \in readdir(fsys, agentBase) :
          LET candidateDir == join2(agentBase, agentEntry.name)
          IN  /\ agentEntry.isDirectory
              /\ isPathSafeRegistry(agentBase, candidateDir)
              /\ parseSkillMd(fsys, candidateDir) # NullSkill
              /\ parseSkillMd(fsys, candidateDir).name = declaredName

\* the agents reported for the skill found in the canonical entry entryName
installedAgentsOf(fsys, detectedAgents, agentFilter, isGlobal, cwd, entryName, skill) ==
    LET agentsToCheck == IF ~agentFilter.given THEN detectedAgents
                         ELSE detectedAgents \cap agentFilter.list
    IN  { agentType \in agentsToCheck :
            /\ ~(isGlobal /\ agents[agentType].globalSkillsDir = Undefined)
            /\ LET agentBase == agentBaseOf(agentType, isGlobal, cwd)
                   possibleNames == { entryName, sanitizeName(skill.name), looseSlug(skill.name) }
               IN  \/ foundByName(fsys, agentBase, possibleNames)
                   \/ foundByScan(fsys, agentBase, skill.name) }

\* a `name:` of the descriptor that YAML reads as a number, not a string
NumberName == << "#7" >>

\* `name.toLowerCase()` throws a TypeError on a name that is no string
nameThrows(name) == name = NumberName

\* the canonical entry is a directory whose descriptor parses
parses(fsys, scopePath, entry) ==
    entry.isDirectory /\ parseSkillMd(fsys, join2(scopePath, entry.name)) # NullSkill

\* the entries of the canonical directory that the loop gets through, in
\* the order readdir returned them: sanitizeName(skill.name) throws on a
\* name that is no string and the catch around the loop ends the scope
visitedOf(fsys, scopePath, entries, order) ==
    LET names == SelectSeq(order, LAMBDA n : \E entry \in entries : entry.name = n)
        entryOf(n) == CHOOSE entry \in entries : entry.name = n
        throwsAt == { i \in 1..Len(names) :
                        /\ parses(fsys, scopePath, entryOf(names[i]))
                        /\ nameThrows(parseSkillMd(fsys, join2(scopePath, names[i])).name) }
    IN  { entryOf(names[i]) : i \in { i \in 1..Len(names) : \A j \in throwsAt : i < j } }

\* the views of one scope; order holds the names of the canonical entries
\* in the order readdir returns them
viewsOfScope(fsys, file, detectedAgents, agentFilter, isGlobal, cwd, order) ==
    LET scopePath == getCanonicalSkillsDir(isGlobal, cwd)
        entries == IF statOk(fsys, scopePath) THEN readdir(fsys, scopePath) ELSE {}
        listed == { entry \in visitedOf(fsys, scopePath, entries, order) :
                        parses(fsys, scopePath, entry) }
    IN  { LET skillDir == join2(scopePath, entry.name)
              skill == parseSkillMd(fsys, skillDir)
              lockEntry == getSkillLockEntry(file, skill.name)
          IN  [name |-> skill.name,
               description |-> skill.description,
               path |-> skillDir,
               canonicalPath |-> skillDir,
               scope |-> IF isGlobal THEN "global" ELSE "project",
               agents |-> installedAgentsOf(fsys, detectedAgents, agentFilter, isGlobal,
                                            cwd, entry.name, skill),
               sourceUrl |-> lockEntry.sourceUrl,
               installedAt |-> lockEntry.installedAt,
               updatedAt |-> lockEntry.updatedAt] : entry \in listed }

\* options = [global, cwd, agentFilter]; global is "undefined", "true" or
\* "false"; agentFilter is [given, list]
listInstalledSkills(fsys, file, detectedAgents, options, order) ==
    LET cwd == cwdOr(options.cwd)
        scopes == IF options.global = "undefined" THEN { FALSE, TRUE }
                  ELSE { options.global = "true" }
    IN  UNION { viewsOfScope(fsys, file, detectedAgents, options.agentFilter, g, cwd, order) :
                    g \in scopes }

\* ------------------------------------------------------------------------
\* Values shared by the specifications
\* ------------------------------------------------------------------------
NoRet == << >>
NoFile == [missing |-> TRUE]
NoArg == [fn |-> "none"]
NoLast == [op |-> "none"]
EmptyFs == [p \in {} |-> 0]
NoProcs == << >>
NoRemote == [commit |-> 0, root |-> NoContent, subs |-> << >>]

\* ------------------------------------------------------------------------
\* SanSpec: sanitizeName applied to a raw name, then to its own result
\* ------------------------------------------------------------------------
SanAlphabet == { "a", "B", ".", "-", "_", " " }

Pad(n) == [i \in 1..n |-> "a"]

\* lengths of the padding: none, and close enough to the limit for the free
\* characters to straddle it
PadLens == { 0, MaxNameLen - 2, MaxNameLen - 1 }

Tails == UNION { [1..k -> SanAlphabet] : k \in 0..MaxTail }

RawNames ==
    { Pad(n) \o t : n \in PadLens, t \in Tails }
    \cup { << "U","n","n","a","m","e","d"," ","S","k","i","l","l" >>,
           << "G","i","t"," ","R","e","v","i","e","w" >> }

SanInit ==
    /\ arg \in { [fn |-> "sanitizeName", name |-> n] : n \in RawNames }
    /\ ret = NoRet
    /\ fs = EmptyFs
    /\ lock = NoFile
    /\ last = NoLast
    /\ steps = 0
    /\ clock = 0
    /\ procs = NoProcs
    /\ remote = NoRemote

\* first call: sanitizeName(name); second call: sanitizeName of the result
SanitizeCall ==
    /\ arg.fn = "sanitizeName"
    /\ Len(ret) < 2
    /\ ret' = Append(ret, sanitizeName(IF ret = NoRet THEN arg.name ELSE ret[Len(ret)]))
    /\ UNCHANGED <<arg, fs, lock, last, steps, clock, procs, remote>>

SanNext == SanitizeCall

SanSpec == SanInit /\ [][SanNext]_vars

\* ------------------------------------------------------------------------
\* PathSpec: the two isPathSafe predicates on base/candidate pairs
\* ------------------------------------------------------------------------
PathBases == { << "/", "a", "/", "b" >>, << "/", "a" >>, << "/" >> }

PathSegments == { << "a" >>, << "b" >>, << "b", "c" >>, << ".", "." >>, << "." >> }

SegLists == UNION { [1..k -> PathSegments] : k \in 0..MaxSegs }

\* absolute and relative candidates
PathCandidates ==
    { << "/" >> \o JoinSegs(l) : l \in SegLists }
    \cup { JoinSegs(l) : l \in SegLists \ { << >> } }

PathInit ==
    /\ arg \in { [fn |-> "isPathSafe", base |-> b, candidate |-> c] :
                    b \in PathBases, c \in PathCandidates }
    /\ ret = NoRet
    /\ fs = EmptyFs
    /\ lock = NoFile
    /\ last = NoLast
    /\ steps = 0
    /\ clock = 0
    /\ procs = NoProcs
    /\ remote = NoRemote

PathSafeCall ==
    /\ arg.fn = "isPathSafe"
    /\ ret = NoRet
    /\ ret' = << [installer |-> isPathSafe(arg.base, arg.candidate),
                  registry |-> isPathSafeRegistry(arg.base, arg.candidate)] >>
    /\ UNCHANGED <<arg, fs, lock, last, steps, clock, procs, remote>>

PathNext == PathSafeCall

PathSpec == PathInit /\ [][PathNext]_vars

\* ------------------------------------------------------------------------
\* Spec: installs and listings on a filesystem
\* ------------------------------------------------------------------------
N_old == << "o", "l", "d" >>
N_new == << "n", "e", "w" >>
N_sub == << "s", "u", "b" >>
N_readme == << "R","E","A","D","M","E",".","m","d" >>
N_metadata == << "m","e","t","a","d","a","t","a",".","j","s","o","n" >>
N_hidden == << "_", "x" >>
N_git == << ".", "g", "i", "t" >>

MySkill == << "M", "y", " ", "S", "k", "i", "l", "l" >>
MySkillDir == << "m", "y", "-", "s", "k", "i", "l", "l" >>

Descriptor(name, body) == [name |-> name, description |-> << "d" >>, body |-> body]
Plain(body) == [name |-> << >>, description |-> << >>, body |-> body]

\* two versions of the repository of one skill, as cloned
SourceTree(v) ==
    IF v = 1
        THEN (SKILL_MD :> File(Descriptor(MySkill, 1))) @@ (N_old :> File(Plain(1)))
             @@ (N_readme :> File(Plain(1))) @@ (N_hidden :> File(Plain(1)))
             @@ (N_git :> SubDir(N_old :> File(Plain(1))))
             @@ (N_sub :> SubDir((N_old :> File(Plain(1))) @@ (N_metadata :> File(Plain(1)))
                                 @@ (N_hidden :> SubDir(N_old :> File(Plain(1))))))
    ELSE (SKILL_MD :> File(Descriptor(MySkill, 2))) @@ (N_new :> File(Plain(2)))
         @@ (N_readme :> File(Plain(2)))
         @@ (N_sub :> SubDir(N_new :> File(Plain(2))))

SourceDir(v) == IF v = 1 THEN << "/", "t", "/", "1" >> ELSE << "/", "t", "/", "2" >>

Versions == { 1, 2 }

\* what repository-manager's parseSkillMd returns for a cloned skill
discovered(fsys, dir) ==
    LET d == parseSkillMd(fsys, dir)
    IN  [name |-> d.name, description |-> d.description, path |-> dir]

\* home, working directory and the two clones
BaseFs ==
    LET dirs == mkdir(mkdir(mkdir(EmptyFs, HomeDir), ProcessCwd), TmpDir)
    IN  Put(Put(dirs, SourceDir(1), Dir(SourceTree(1))), SourceDir(2), Dir(SourceTree(2)))

\* what the user has left before the first install: at cursor's project path
\* for the skill a link to another directory, at cursor's global path a
\* link to nothing, at amp's global path and at the global canonical path a
\* directory of other files; nothing at the other paths
ForeignTree == (N_old :> File(Plain(0))) @@ (N_hidden :> File(Plain(0)))

OtherDir == << "o", "t", "h", "e", "r" >>

StaleLink == Link(OtherDir)

BrokenLink == Link(<< ".", ".", "/", "g", "o", "n", "e" >>)

PriorFs ==
    LET cursorProject == agentBaseOf("cursor", FALSE, ProcessCwd)
        cursorGlobal == agentBaseOf("cursor", TRUE, ProcessCwd)
        ampGlobal == agentBaseOf("amp", TRUE, ProcessCwd)
        canonicalGlobal == getCanonicalSkillsDir(TRUE, ProcessCwd)
        dirs == mkdir(mkdir(mkdir(mkdir(BaseFs, cursorProject), cursorGlobal), ampGlobal),
                      canonicalGlobal)
        stale == Put(Put(dirs, join2(cursorProject, OtherDir), Dir(ForeignTree)),
                     join2(cursorProject, MySkillDir), StaleLink)
        broken == Put(stale, join2(cursorGlobal, MySkillDir), BrokenLink)
    IN  Put(Put(broken, join2(ampGlobal, MySkillDir), Dir(ForeignTree)),
            join2(canonicalGlobal, MySkillDir), Dir(ForeignTree))

Modes == { "symlink", "copy" }

\* prior: what lay at the agent's path for the skill when install was called
Last(op, skill, agentType, options, symlinkOk, prior, result, views) ==
    [op |-> op, skill |-> skill, agentType |-> agentType, options |-> options,
     symlinkOk |-> symlinkOk, prior |-> prior, result |-> result, views |-> views]

NoNode == [kind |-> "absent", entries |-> EmptyEntries, target |-> << >>]

nodeAt(fsys, path) == IF path \in DOMAIN fsys THEN fsys[path] ELSE NoNode

NoSkill == [name |-> << >>, description |-> << >>, path |-> << >>]
NoOptions == [global |-> FALSE, cwd |-> Undefined, mode |-> "undefined"]
NoResult == Result(FALSE, << >>, Undefined, "undefined", FALSE, "")

Init ==
    /\ arg = NoArg
    /\ ret = NoRet
    /\ fs = PriorFs
    /\ lock = NoFile
    /\ last = Last("none", NoSkill, "cursor", NoOptions, TRUE, NoNode, NoResult, {})
    /\ steps = 0
    /\ clock = 0
    /\ procs = NoProcs
    /\ remote = NoRemote

\* one call of installSkillForAgent on a cloned skill
InstallCall ==
    \E v \in Versions, agentType \in AgentTypes, g \in BOOLEAN, m \in Modes,
       symlinkOk \in BOOLEAN :
        /\ steps < MaxSteps
        /\ (m = "copy" => symlinkOk)
        /\ LET skill == discovered(fs, SourceDir(v))
               options == [global |-> g, cwd |-> Undefined, mode |-> m]
               out == installSkillForAgent(fs, skill, agentType, options, symlinkOk)
               prior == IF unsupportedScope(agentType, g) THEN NoNode
                        ELSE nodeAt(fs, agentDirOf(skill, agentType, g, ProcessCwd))
           IN  /\ fs' = out.fs
               /\ last' = Last("install", skill, agentType, options, symlinkOk, prior,
                               out.result, {})
        /\ steps' = steps + 1
        /\ UNCHANGED <<arg, ret, lock, clock, procs, remote>>

\* one call of listInstalledSkills, every agent detected; my-skill is the
\* one name under the canonical directories here
ListCall ==
    \E g \in { "undefined", "true", "false" } :
        /\ steps < MaxSteps
        /\ LET options == [global |-> g, cwd |-> Undefined,
                           agentFilter |-> [given |-> FALSE, list |-> {}]]
           IN  last' = Last("list", NoSkill, "cursor", NoOptions, TRUE, NoNode, NoResult,
                            listInstalledSkills(fs, lock, AgentTypes, options,
                                                << MySkillDir >>))
        /\ steps' = steps + 1
        /\ UNCHANGED <<arg, ret, fs, lock, clock, procs, remote>>

Next == InstallCall \/ ListCall

Spec == Init /\ [][Next]_vars

\* ------------------------------------------------------------------------
\* RegSpec: the operations of skill-registry.ts on the lock file, one
\* process, each call awaited before the next
\* ------------------------------------------------------------------------
OtherSkillDir == << "o", "t", "h", "e", "r" >>

\* the names a caller passes: sanitized ones and one that is not
RegNames == { MySkillDir, MySkill, OtherSkillDir }

Metadata(url, hash) ==
    [source |-> Opaque("owner/repo"), sourceType |-> Opaque("github"),
     sourceUrl |-> Opaque(url), skillPath |-> Undefined, skillFolderHash |-> Opaque(hash),
     gitCommitHash |-> Undefined]

Metadatas == { Metadata("url1", "hash1"), Metadata("url2", "hash2") }

\* the time of the calls that wrote the files found at the start
StartTime == 2

\* entries that earlier calls have written
OldEntries ==
    (MySkillDir :> Entry(Metadata("url1", "hash1"), 1, 2))
    @@ (N_old :> Entry(Metadata("url2", "hash2"), 1, 1))

AgentLists == { << "cursor" >>, << "amp", "cursor" >> }

\* the lock files found at the start: none, broken ones, and documents of
\* the version before, the current version and the version after
LockFiles ==
    { NoFile,
      FileOf("invalid", FALSE, 0, "absent", NoEntries, Undefined, "undefined"),
      FileOf("null", FALSE, 0, "absent", NoEntries, Undefined, "undefined"),
      FileOf("value", FALSE, 0, "map", OldEntries, << "cursor" >>, "undefined"),
      FileOf("value", TRUE, CURRENT_VERSION, "absent", NoEntries, << "cursor" >>, "undefined"),
      FileOf("value", TRUE, CURRENT_VERSION, "falsy", NoEntries, Undefined, "findSkillsPrompt"),
      FileOf("value", TRUE, CURRENT_VERSION, "other", NoEntries, Undefined, "undefined"),
      FileOf("value", TRUE, CURRENT_VERSION - 1, "map", OldEntries, << "cursor" >>,
             "findSkillsPrompt"),
      FileOf("value", TRUE, CURRENT_VERSION, "map", NoEntries, Undefined, "undefined"),
      FileOf("value", TRUE, CURRENT_VERSION, "map", OldEntries, << "cursor" >>,
             "findSkillsPrompt"),
      FileOf("value", TRUE, CURRENT_VERSION + 1, "map", OldEntries, << "cursor" >>,
             "undefined") }

\* found: the document read at the start of the call had an entry under the
\* sanitized name; now: the time the call took (0: none); threw: the call
\* ended in an exception
RegLast(op, name, metadata, now, found, threw) ==
    [op |-> op, name |-> name, metadata |-> metadata, now |-> now, found |-> found,
     threw |-> threw]

NoMetadata == Metadata("", "")

foundIn(file, name) == getSkillLockEntry(file, name) # NullEntry

RegInit ==
    /\ arg = NoArg
    /\ ret = NoRet
    /\ fs = EmptyFs
    /\ lock \in LockFiles
    /\ last = RegLast("none", << >>, NoMetadata, 0, FALSE, FALSE)
    /\ steps = 0
    /\ clock = StartTime
    /\ procs = NoProcs
    /\ remote = NoRemote

ReadLockCall ==
    /\ steps < MaxSteps
    /\ ret' = << readSkillLock(lock) >>
    /\ last' = RegLast("read", << >>, NoMetadata, 0, FALSE, FALSE)
    /\ steps' = steps + 1
    /\ UNCHANGED <<arg, fs, lock, clock, procs, remote>>

AddToLockCall ==
    \E name \in RegNames, metadata \in Metadatas, now \in { clock, clock + 1 } :
        /\ steps < MaxSteps
        /\ now <= MaxClock
        /\ lock' = addSkillToLock(lock, name, metadata, now)
        /\ clock' = now
        /\ ret' = NoRet
        /\ last' = RegLast("add", name, metadata, now, foundIn(lock, name),
                           addThrows(readSkillLock(lock)))
        /\ steps' = steps + 1
        /\ UNCHANGED <<arg, fs, procs, remote>>

GetEntryCall ==
    \E name \in RegNames :
        /\ steps < MaxSteps
        /\ ret' = << getSkillLockEntry(lock, name) >>
        /\ last' = RegLast("get", name, NoMetadata, 0, foundIn(lock, name), FALSE)
        /\ steps' = steps + 1
        /\ UNCHANGED <<arg, fs, lock, clock, procs, remote>>

RemoveFromLockCall ==
    \E name \in RegNames :
        /\ steps < MaxSteps
        /\ lock' = removeSkillFromLock(lock, name)
        /\ ret' = NoRet
        /\ last' = RegLast("remove", name, NoMetadata, 0, foundIn(lock, name), FALSE)
        /\ steps' = steps + 1
        /\ UNCHANGED <<arg, fs, clock, procs, remote>>

SaveAgentsCall ==
    \E agentTypes \in AgentLists :
        /\ steps < MaxSteps
        /\ lock' = saveSelectedAgents(lock, agentTypes)
        /\ ret' = NoRet
        /\ last' = RegLast("saveAgents", << >>, NoMetadata, 0, FALSE, FALSE)
        /\ steps' = steps + 1
        /\ UNCHANGED <<arg, fs, clock, procs, remote>>

RegNext ==
    \/ ReadLockCall
    \/ AddToLockCall
    \/ GetEntryCall
    \/ RemoveFromLockCall
    \/ SaveAgentsCall

RegSpec == RegInit /\ [][RegNext]_vars

\* ------------------------------------------------------------------------
\* RaceSpec: two read-modify-write cycles on the lock file at once
\* (addSkillToLock, saveSelectedAgents).  A cycle reads the file, changes
\* the document in memory and, after the await of mkdir, writes the file.
\* ------------------------------------------------------------------------
Processes == { 1, 2 }

\* pc: "idle", "read" (the document is in memory), "done", "failed";
\* base: the document read; stale: another cycle has written the file
\* since this one read it
Proc(pc, kind, name, metadata, agentTypes, now, base, stale) ==
    [pc |-> pc, kind |-> kind, name |-> name, metadata |-> metadata,
     agentTypes |-> agentTypes, now |-> now, base |-> base, stale |-> stale]

IdleProc == Proc("idle", "none", << >>, NoMetadata, Undefined, 0, createEmptyLockFile, FALSE)

\* the document a cycle holds in memory once it has made its change
changed(doc, proc) ==
    IF proc.kind = "add" THEN addedTo(doc, proc.name, proc.metadata, proc.now)
    ELSE agentsSavedTo(doc, proc.agentTypes)

\* a write that takes the file as it is now and makes its change to it
written_merged(file, proc) == writeSkillLock(changed(readSkillLock(file), proc))

\* the file a cycle writes: the document it read, with its change
written(file, proc) == writeSkillLock(changed(proc.base, proc))

RaceInit ==
    /\ arg = NoArg
    /\ ret = NoRet
    /\ fs = EmptyFs
    /\ lock \in LockFiles
    /\ last = [op |-> "none", p |-> 0]
    /\ steps = 0
    /\ clock = StartTime
    /\ procs = [p \in Processes |-> IdleProc]
    /\ remote = NoRemote

\* readSkillLock of a cycle, and the change in memory
RaceBegin(p) ==
    /\ procs[p].pc = "idle"
    /\ \E kind \in { "add", "save" }, name \in RegNames, metadata \in Metadatas,
          agentTypes \in AgentLists, now \in { clock, clock + 1 } :
          /\ now <= MaxClock
          /\ kind = "add" => agentTypes = << "cursor" >>
          /\ kind = "save" => (name = MySkillDir /\ metadata = Metadata("url1", "hash1"))
          /\ LET base == readSkillLock(lock)
                 pc == IF kind = "add" /\ addThrows(base) THEN "failed" ELSE "read"
             IN  procs' = [procs EXCEPT ![p] =
                              Proc(pc, kind, name, metadata, agentTypes, now, base, FALSE)]
          /\ clock' = now
    /\ last' = [op |-> "begin", p |-> p]
    /\ UNCHANGED <<arg, ret, fs, lock, steps, remote>>

\* writeSkillLock of a cycle
RaceWrite(p) ==
    /\ procs[p].pc = "read"
    /\ lock' = written(lock, procs[p])
    /\ procs' = [q \in Processes |->
                    IF q = p THEN [procs[q] EXCEPT !.pc = "done"]
                    ELSE IF procs[q].pc = "read" THEN [procs[q] EXCEPT !.stale = TRUE]
                    ELSE procs[q]]
    /\ last' = [op |-> "write", p |-> p]
    /\ UNCHANGED <<arg, ret, fs, steps, clock, remote>>

RaceNext == \E p \in Processes : RaceBegin(p) \/ RaceWrite(p)

RaceSpec == RaceInit /\ [][RaceNext]_vars

\* ------------------------------------------------------------------------
\* Specification ListSpec: listInstalledSkills over directories that
\* installs, other tools and the user have left
\* ------------------------------------------------------------------------
ColonSkill == << "M", "y", ":", "S", "k", "i", "l", "l" >>
DotName == << "." >>
MsDir == << "m", "s" >>
MySkillLoose == << "m", "y", "s", "k", "i", "l", "l" >>
NumDir == << "n" >>
NoDescDir == << "n", "d" >>
LinkDir == << "l" >>

\* a skill directory whose descriptor declares name and description
SkillNode(name, description) ==
    Dir(SKILL_MD :> File([name |-> name, description |-> description, body |-> 0]))

Described == << "d" >>

place(fsys, dir, name, node) == Put(mkdir(fsys, dir), join2(dir, name), node)

ListFs ==
    LET canonicalProject == getCanonicalSkillsDir(FALSE, ProcessCwd)
        canonicalGlobal == getCanonicalSkillsDir(TRUE, ProcessCwd)
        cursorProject == agentBaseOf("cursor", FALSE, ProcessCwd)
        cursorGlobal == agentBaseOf("cursor", TRUE, ProcessCwd)
        ampGlobal == agentBaseOf("amp", TRUE, ProcessCwd)
        replitProject == agentBaseOf("replit", FALSE, ProcessCwd)
        mySkill == SkillNode(MySkill, Described)
        \* installed for cursor by link
        linked == place(place(BaseFs, canonicalProject, MySkillDir, mySkill),
                        cursorProject, MySkillDir,
                        Link(relative(cursorProject, join2(canonicalProject, MySkillDir))))
        \* the canonical entry has another name than the agent's directory
        renamed == place(place(place(BaseFs, canonicalProject, MsDir, mySkill),
                               cursorProject, MySkillDir, Dir(ForeignTree)),
                         replitProject, OtherDir, Dir(ForeignTree))
        \* agents' directories under the loose slug and under another name
        loose == place(place(place(BaseFs, canonicalGlobal, MsDir,
                                   SkillNode(ColonSkill, Described)),
                             cursorGlobal, MySkillLoose, Dir(ForeignTree)),
                       ampGlobal, OtherDir, SkillNode(ColonSkill, Described))
        \* a declared name whose loose slug is "."
        dotted == place(place(BaseFs, canonicalProject, sanitizeName(DotName),
                              SkillNode(DotName, Described)),
                        cursorProject, OtherDir, Dir(ForeignTree))
        \* a declared name that is a number
        numbered == place(place(BaseFs, canonicalProject, NumDir,
                                SkillNode(NumberName, Described)),
                          canonicalProject, MySkillDir, mySkill)
        \* entries that are no skills: no description, no descriptor, a link
        others == place(place(place(place(BaseFs, cursorProject, MySkillDir, mySkill),
                                    canonicalProject, NoDescDir, SkillNode(MySkill, << >>)),
                              canonicalProject, OtherDir, Dir(ForeignTree)),
                        canonicalProject, LinkDir,
                        Link(relative(canonicalProject, join2(cursorProject, MySkillDir))))
        \* the skill in both scopes
        both == place(place(place(place(BaseFs, canonicalProject, MySkillDir, mySkill),
                                  canonicalGlobal, MySkillDir, mySkill),
                            cursorGlobal, MySkillDir, mySkill),
                      replitProject, MySkillDir, mySkill)
    IN  { BaseFs, linked, renamed, loose, dotted, numbered, others, both }

\* the registry: none, or one that holds an entry for my-skill
ListLocks ==
    { NoFile,
      FileOf("value", TRUE, CURRENT_VERSION, "map", OldEntries, Undefined, "undefined") }

\* the names of the canonical entries, in the two orders in which readdir
\* may return any two of them
EntryOrders ==
    LET up == << LinkDir, MsDir, MySkillDir, NumDir, NoDescDir, OtherDir, sanitizeName(DotName) >>
    IN  { up, [i \in 1..Len(up) |-> up[Len(up) + 1 - i]] }

Detections == { AgentTypes, { "cursor", "replit" } }

AgentFilters == { [given |-> FALSE, list |-> {}], [given |-> TRUE, list |-> { "cursor" }] }

ListLast(op, options, detectedAgents, order, views) ==
    [op |-> op, options |-> options, detectedAgents |-> detectedAgents, order |-> order,
     views |-> views]

ListInit ==
    /\ arg = NoArg
    /\ ret = NoRet
    /\ fs \in ListFs
    /\ lock \in ListLocks
    /\ last = ListLast("none", NoOptions, {}, << >>, {})
    /\ steps = 0
    /\ clock = 0
    /\ procs = NoProcs
    /\ remote = NoRemote

\* one call of listInstalledSkills
ListSkillsCall ==
    /\ steps < MaxSteps
    /\ \E global \in { "undefined", "true", "false" }, agentFilter \in AgentFilters,
          detectedAgents \in Detections, order \in EntryOrders :
          LET options == [global |-> global, cwd |-> Undefined, agentFilter |-> agentFilter]
          IN  last' = ListLast("list", options, detectedAgents, order,
                               listInstalledSkills(fs, lock, detectedAgents, options, order))
    /\ steps' = steps + 1
    /\ UNCHANGED << arg, ret, fs, lock, clock, procs, remote >>

ListNext == ListSkillsCall

ListSpec == ListInit /\ [][ListNext]_vars

\* ------------------------------------------------------------------------
\* repository-manager.ts: cloneRepository, discoverSkills, getRemoteCommitHash
\* update-detector.ts: the fingerprints and checkForUpdates, in its two
\* versions (by content hash and by commit hash)
\* ------------------------------------------------------------------------
\* the directory mkdtemp makes for a clone
TmpClone == << "/", "t", "/", "c" >>
TmpClone2 == << "/", "t", "/", "d" >>

\* mkdtemp(join(tmpdir(), "skills-")): a directory of the temp root that
\* did not exist
mkdtemp(fsys) == IF TmpClone \notin DOMAIN fsys THEN TmpClone ELSE TmpClone2

\* git clone of the repository: its root (with the descriptor, if it has
\* one) and its skill directories
clone(fsys, repo, tempDir) ==
    LET rootEntries == IF repo.root = NoContent THEN EmptyEntries
                       ELSE SKILL_MD :> File(repo.root)
        base == Put(mkdir(fsys, TmpDir), tempDir, Dir(rootEntries))
        subPaths == { join2(tempDir, repo.subs[i].dir) : i \in DOMAIN repo.subs }
        subAt(path) == CHOOSE i \in DOMAIN repo.subs : join2(tempDir, repo.subs[i].dir) = path
    IN  [k \in DOMAIN base \cup subPaths |->
            IF k \in subPaths THEN Dir(SKILL_MD :> File(repo.subs[subAt(k)].content))
            ELSE base[k]]

\* cloneRepository: the clone in a fresh temporary directory; a clone that
\* fails removes the directory and throws (ok = FALSE), and so does
\* mkdtemp without a temp root
cloneRepository(fsys, repo, cloneOk) ==
    LET tempDir == mkdtemp(fsys)
    IN  IF TmpDir \notin DOMAIN fsys THEN [ok |-> FALSE, tempDir |-> tempDir, fs |-> fsys]
        ELSE IF cloneOk THEN [ok |-> TRUE, tempDir |-> tempDir, fs |-> clone(fsys, repo, tempDir)]
        ELSE [ok |-> FALSE, tempDir |-> tempDir,
              fs |-> rm(Put(mkdir(fsys, TmpDir), tempDir, Dir(EmptyEntries)), tempDir)]

\* what the operating system makes of a path handed to rm: its `..`
\* segments climb
located(dir) == resolve(dir)

\* cleanupTempDir: throws (ok = FALSE) unless the text of dir begins with
\* the temp root; otherwise rm(dir, { recursive, force })
cleanupTempDir(fsys, dir) ==
    LET normalizedDir == backslashToSlash(dir)
        normalizedTmpDir == backslashToSlash(TmpDir)
    IN  IF ~startsWith(normalizedDir, normalizedTmpDir \o << "/" >>)
           /\ normalizedDir # normalizedTmpDir
            THEN [ok |-> FALSE, fs |-> fsys]
        ELSE [ok |-> TRUE, fs |-> rm(fsys, located(dir))]

hasSkillMd(fsys, dir) ==
    /\ statOk(fsys, dir)
    /\ SKILL_MD \in DOMAIN treeAt(fsys, dir)
    /\ ~treeAt(fsys, dir)[SKILL_MD].isDirectory

NullDiscovered == [name |-> << >>, description |-> << >>, path |-> << >>, rawContent |-> NoContent]

\* repository-manager's parseSkillMd, of the descriptor in skillDir
parseDiscovered(fsys, skillDir) ==
    LET content == treeAt(fsys, skillDir)[SKILL_MD].content
    IN  IF content.name = << >> \/ content.description = << >> THEN NullDiscovered
        ELSE [name |-> content.name, description |-> content.description,
              path |-> skillDir, rawContent |-> content]

\* the skills of the sequence whose name no earlier one has
RECURSIVE unseen(_)
unseen(skills) ==
    IF skills = << >> THEN << >>
    ELSE LET front == unseen(SubSeq(skills, 1, Len(skills) - 1))
             skill == skills[Len(skills)]
         IN  IF \E i \in DOMAIN front : front[i].name = skill.name THEN front
             ELSE Append(front, skill)

\* discoverSkills(repoPath, subpath) without fullDepth; order holds the
\* names of the directories below the search path as findSkillDirs comes
\* to them
discoverSkills(fsys, repoPath, subpath, order) ==
    LET searchPath == IF subpath = Undefined THEN repoPath ELSE join2(repoPath, subpath)
        skillDirs == SelectSeq([i \in DOMAIN order |-> join2(searchPath, order[i])],
                               LAMBDA dir : hasSkillMd(fsys, dir))
        parsed == [i \in DOMAIN skillDirs |-> parseDiscovered(fsys, skillDirs[i])]
    IN  IF hasSkillMd(fsys, searchPath)
            THEN IF parseDiscovered(fsys, searchPath) # NullDiscovered
                     THEN << parseDiscovered(fsys, searchPath) >>
                 ELSE << >>
        ELSE unseen(SelectSeq(parsed, LAMBDA skill : skill # NullDiscovered))

\* a fingerprint (of a content, or the hash of a commit); `null` and ''
Hash(of) == [present |-> TRUE, of |-> of]
NullHash == [present |-> FALSE, of |-> NoContent]
NullCommit == [present |-> FALSE, of |-> 0]

\* sha256 of the text: one hash per content
computeContentHash(content) == Hash(content)

\* getCanonicalPath
getCanonicalPath(skillName, options) ==
    join2(getCanonicalSkillsDir(options.global, options.cwd), sanitizeName(skillName))

computeInstalledSkillHash(fsys, skillName, options) ==
    LET canonicalPath == getCanonicalPath(skillName, options)
    IN  IF ~isPathSafe(getCanonicalSkillsDir(options.global, options.cwd), canonicalPath)
            THEN NullHash
        ELSE IF ~hasSkillMd(fsys, canonicalPath) THEN NullHash
        ELSE computeContentHash(treeAt(fsys, canonicalPath)[SKILL_MD].content)

orderOf(repo) == [i \in DOMAIN repo.subs |-> repo.subs[i].dir]

\* computeRemoteSkillHash returning from inside `try` with no `finally`
\* when nothing was discovered
hashOfDiscovered_keepsEmptyClone(cloned, skills) ==
    IF Len(skills) = 0 THEN [hash |-> NullHash, fs |-> cloned.fs]
    ELSE [hash |-> computeContentHash(skills[1].rawContent),
          fs |-> cleanupTempDir(cloned.fs, cloned.tempDir).fs]

\* computeRemoteSkillHash, `try` and `finally`: the hash of the first skill
\* discovered in the clone, and the filesystem with the clone cleaned up
hashOfDiscovered(cloned, skills) ==
    [hash |-> IF Len(skills) = 0 THEN NullHash
              ELSE computeContentHash(skills[1].rawContent),
     fs |-> cleanupTempDir(cloned.fs, cloned.tempDir).fs]

\* computeRemoteSkillHash once cloneRepository is over: a clone that threw
\* gives null
hashOfClone(cloned, repo, skillPath) ==
    IF ~cloned.ok THEN [hash |-> NullHash, fs |-> cloned.fs]
    ELSE hashOfDiscovered(cloned,
                          discoverSkills(cloned.fs, cloned.tempDir, skillPath, orderOf(repo)))

\* computeRemoteSkillHash: the hash and the filesystem it leaves
computeRemoteSkillHash(fsys, repo, cloneOk, skillName, skillPath) ==
    hashOfClone(cloneRepository(fsys, repo, cloneOk), repo, skillPath)

Status(skillName, hasUpdate, updateType, localHash, remoteHash) ==
    [skillName |-> skillName, hasUpdate |-> hasUpdate, updateType |-> updateType,
     localHash |-> localHash, remoteHash |-> remoteHash]

\* the UpdateStatus of the two hashes: no update when either is null
statusOf(skillName, localHash, remoteHash, updateType) ==
    IF ~localHash.present \/ ~remoteHash.present
        THEN Status(skillName, FALSE, "none", localHash, remoteHash)
    ELSE Status(skillName, localHash # remoteHash,
                IF localHash # remoteHash THEN updateType ELSE "none",
                localHash, remoteHash)

\* what a check returns and the filesystem it leaves
checked(skillName, localHash, remote_, updateType) ==
    [fs |-> remote_.fs,
     status |-> statusOf(skillName, localHash, remote_.hash, updateType)]

\* a check that brings the installed descriptor up to date when it differs
refreshed(canonicalPath, out) ==
    [fs |-> IF out.status.hasUpdate
                THEN Put(out.fs, canonicalPath, Dir(SKILL_MD :> File(out.status.remoteHash.of)))
            ELSE out.fs,
     status |-> out.status]

checkForUpdates_refreshing(fsys, repo, cloneOk, skillName, skillPath, options) ==
    refreshed(getCanonicalPath(skillName, options),
              checked(skillName, computeInstalledSkillHash(fsys, skillName, options),
                      computeRemoteSkillHash(fsys, repo, cloneOk, skillName, skillPath),
                      "content"))

\* checkForUpdates by content hash
checkForUpdates(fsys, repo, cloneOk, skillName, skillPath, options) ==
    checked(skillName, computeInstalledSkillHash(fsys, skillName, options),
            computeRemoteSkillHash(fsys, repo, cloneOk, skillName, skillPath),
            "content")

\* getSkillInstallState once the installed hash is there
installStateOf(localHash, remote_) ==
    [fs |-> remote_.fs,
     status |-> IF ~remote_.hash.present \/ localHash = remote_.hash THEN "installed"
                ELSE "update_available"]

\* getSkillInstallState: nothing is cloned for a skill that is not installed
getSkillInstallState(fsys, repo, cloneOk, skillName, skillPath, options) ==
    IF ~computeInstalledSkillHash(fsys, skillName, options).present
        THEN [fs |-> fsys, status |-> "not_installed"]
    ELSE installStateOf(computeInstalledSkillHash(fsys, skillName, options),
                        computeRemoteSkillHash(fsys, repo, cloneOk, skillName, skillPath))

\* getInstalledCommitHash: `lockEntry?.gitCommitHash || null`
getInstalledCommitHash(file, skillName) ==
    LET lockEntry == getSkillLockEntry(file, skillName)
    IN  IF Len(lockEntry.gitCommitHash) < 2 THEN NullCommit
        ELSE Hash(lockEntry.gitCommitHash[2])

\* getLatestCommitHash: HEAD of the clone, or null when git cannot tell
getLatestCommitHash(repo, gitOk) == IF gitOk THEN Hash(repo.commit) ELSE NullCommit

\* getRemoteCommitHash once cloneRepository is over: HEAD of the clone, and
\* `finally` cleans the clone up
commitOfClone(cloned, repo, gitOk) ==
    IF ~cloned.ok THEN [hash |-> NullCommit, fs |-> cloned.fs]
    ELSE [hash |-> getLatestCommitHash(repo, gitOk),
          fs |-> cleanupTempDir(cloned.fs, cloned.tempDir).fs]

\* getRemoteCommitHash: the hash and the filesystem it leaves
getRemoteCommitHash(fsys, repo, cloneOk, gitOk) ==
    commitOfClone(cloneRepository(fsys, repo, cloneOk), repo, gitOk)

\* checkForUpdates by commit hash
checkForUpdatesByCommit(fsys, file, repo, cloneOk, skillName) ==
    checked(skillName, getInstalledCommitHash(file, skillName),
            getRemoteCommitHash(fsys, repo, cloneOk, TRUE), "git")

\* ------------------------------------------------------------------------
\* Specification UpdSpec: skills are installed from a repository, the
\* repository goes on, and checkForUpdates is called
\* ------------------------------------------------------------------------
MaxCommits == 2

OtherSkill == << "O", "t", "h", "e", "r" >>

SourceUrl == "url1"

Content(name, body) == [name |-> name, description |-> Described, body |-> body]

Repo(commit, root, subs) == [commit |-> commit, root |-> root, subs |-> subs]

\* the repository of one skill, and the repository of two skills with its
\* directories in the one and the other order
Repos ==
    LET mine == [dir |-> MySkillDir, content |-> Content(MySkill, 1)]
        other == [dir |-> OtherDir, content |-> Content(OtherSkill, 1)]
    IN  { Repo(1, Content(MySkill, 1), << >>),
          Repo(1, NoContent, << mine, other >>),
          Repo(1, NoContent, << other, mine >>) }

UpdFs == mkdir(mkdir(mkdir(EmptyFs, HomeDir), ProcessCwd), TmpDir)

SkillNames == { MySkill, OtherSkill }

\* what install-flow hands to addSkillToLock; the hash of a commit is its
\* number in the history of the repository
CommitMetadata(url, commit) ==
    [source |-> Opaque(url), sourceType |-> Opaque("github"), sourceUrl |-> Opaque(url),
     skillPath |-> Undefined, skillFolderHash |-> Undefined,
     gitCommitHash |-> << "commit", commit >>]

NoStatus == Status(<< >>, FALSE, "none", NullHash, NullHash)
NoCommitStatus == Status(<< >>, FALSE, "none", NullCommit, NullCommit)

\* installs: for each skill name the mode it was last installed in, or
\* "none"; cloneOk: whether the clone of the check succeeded; commit: the
\* commit the source was at when the operation was called
UpdLast(op, name, installs, cloneOk, commit, byContent, byCommit) ==
    [op |-> op, name |-> name, installs |-> installs, cloneOk |-> cloneOk,
     commit |-> commit, byContent |-> byContent, byCommit |-> byCommit]

UpdInit ==
    /\ arg = NoArg
    /\ ret = NoRet
    /\ fs = UpdFs
    /\ lock = NoFile
    /\ last = UpdLast("none", << >>, [n \in SkillNames |-> "none"], TRUE, 0, NoStatus, NoCommitStatus)
    /\ steps = 0
    /\ clock = StartTime
    /\ procs = NoProcs
    /\ remote \in Repos

\* handleInstallation: one of the skills discovered in a clone is installed
\* for cursor in the project and recorded in the registry
UpdInstall ==
    \E x \in 1..2, m \in Modes, symlinkOk \in BOOLEAN :
        /\ steps < MaxSteps
        /\ (m = "copy" => symlinkOk)
        /\ LET cloned == clone(fs, remote, TmpClone)
               skills == discoverSkills(cloned, TmpClone, Undefined, orderOf(remote))
               options == [global |-> FALSE, cwd |-> Undefined, mode |-> m]
           IN  /\ x <= Len(skills)
               /\ LET out == installSkillForAgent(cloned, skills[x], "cursor", options, symlinkOk)
                  IN  /\ fs' = cleanupTempDir(out.fs, TmpClone).fs
                      /\ lock' = IF out.result.success
                                     THEN addSkillToLock(lock, sanitizeName(skills[x].name),
                                                         CommitMetadata(SourceUrl, remote.commit),
                                                         clock)
                                 ELSE lock
                      /\ last' = UpdLast("install", skills[x].name,
                                         IF out.result.success
                                             THEN [last.installs EXCEPT ![skills[x].name] =
                                                       IF out.result.symlinkFailed THEN "copy"
                                                       ELSE m]
                                         ELSE last.installs,
                                         TRUE, remote.commit, NoStatus, NoCommitStatus)
        /\ steps' = steps + 1
        /\ UNCHANGED << arg, ret, clock, procs, remote >>

\* a commit at the source: it changes the descriptor of one skill, or
\* (touched = 0 with no descriptor at the root, or touched beyond the
\* skills) other files only
RemoteCommit ==
    \E touched \in 0..3 :
        /\ remote.commit < MaxCommits
        /\ remote' =
              [commit |-> remote.commit + 1,
               root |-> IF touched = 0 /\ remote.root # NoContent
                            THEN [remote.root EXCEPT !.body = remote.commit + 1]
                        ELSE remote.root,
               subs |-> [i \in DOMAIN remote.subs |->
                            IF i = touched
                                THEN [remote.subs[i] EXCEPT !.content.body = remote.commit + 1]
                            ELSE remote.subs[i]]]
        /\ UNCHANGED << arg, ret, fs, lock, last, steps, clock, procs >>

\* checkForUpdates(name, sourceUrl, undefined, { global: false }), in both
\* versions
UpdCheck ==
    \E name \in SkillNames, cloneOk \in BOOLEAN :
        /\ steps < MaxSteps
        /\ LET options == [global |-> FALSE, cwd |-> Undefined]
               byContent == checkForUpdates(fs, remote, cloneOk, name, Undefined, options)
               byCommit == checkForUpdatesByCommit(byContent.fs, lock, remote, cloneOk, name)
           IN  /\ last' = UpdLast("check", name, last.installs, cloneOk, remote.commit,
                                   byContent.status, byCommit.status)
               /\ fs' = byCommit.fs
        /\ steps' = steps + 1
        /\ UNCHANGED << arg, ret, lock, clock, procs, remote >>

UpdNext == UpdInstall \/ RemoteCommit \/ UpdCheck

UpdSpec == UpdInit /\ [][UpdNext]_vars

\* ------------------------------------------------------------------------
\* Specification TmpSpec: temporary clones. Fingerprints of the source are
\* computed, flows clone the source and hold the clone, and cleanupTempDir
\* is called with paths of all kinds
\* ------------------------------------------------------------------------
KeepDir == join2(HomeDir, << "k", "e", "e", "p" >>)

\* no skill at all
EmptyRepo == Repo(1, NoContent, << >>)

TmpFs == Put(UpdFs, KeepDir, Dir(SKILL_MD :> File(Content(MySkill, 1))))

\* the paths handed to cleanupTempDir: clones, the temp root, a directory
\* of the temp root that does not exist, a directory outside the temp root
\* by its plain name, by a path that begins with the temp root and climbs
\* out of it, and by a name that only begins with the letters of the root
CleanupPaths ==
    { TmpClone, TmpClone2, TmpDir,
      join2(TmpDir, << "z" >>),
      KeepDir,
      TmpDir \o << "/", ".", ".", "/", "h", "/", "k", "e", "e", "p" >>,
      TmpClone \o << "/", ".", ".", "/", ".", ".", "/", "h" >>,
      TmpDir \o << "x" >> }

SkillPaths == { Undefined, MySkillDir, OtherDir }

\* dir: the temporary directory of the call, or the path handed to
\* cleanupTempDir; before: the filesystem the call found
TmpLast(op, dir, cloneOk, ok, present, before) ==
    [op |-> op, dir |-> dir, cloneOk |-> cloneOk, ok |-> ok, present |-> present,
     before |-> before]

TmpInit ==
    /\ arg = NoArg
    /\ ret = NoRet
    /\ fs = TmpFs
    /\ lock = NoFile
    /\ last = TmpLast("none", << >>, TRUE, TRUE, FALSE, EmptyFs)
    /\ steps = 0
    /\ clock = StartTime
    /\ procs = NoProcs
    /\ remote \in Repos \cup { EmptyRepo }

\* a flow clones the source and holds the clone
CloneCall ==
    \E cloneOk \in BOOLEAN :
        /\ steps < MaxSteps
        /\ TmpClone2 \notin DOMAIN fs
        /\ LET cloned == cloneRepository(fs, remote, cloneOk)
           IN  /\ fs' = cloned.fs
               /\ last' = TmpLast("clone", cloned.tempDir, cloneOk, cloned.ok, FALSE, fs)
        /\ steps' = steps + 1
        /\ UNCHANGED << arg, ret, lock, clock, procs, remote >>

RemoteHashCall ==
    \E cloneOk \in BOOLEAN, skillPath \in SkillPaths :
        /\ steps < MaxSteps
        /\ TmpClone2 \notin DOMAIN fs
        /\ LET out == computeRemoteSkillHash(fs, remote, cloneOk, MySkill, skillPath)
           IN  /\ fs' = out.fs
               /\ last' = TmpLast("computeRemoteSkillHash", mkdtemp(fs), cloneOk, TRUE,
                                  out.hash.present, fs)
        /\ steps' = steps + 1
        /\ UNCHANGED << arg, ret, lock, clock, procs, remote >>

RemoteCommitCall ==
    \E cloneOk \in BOOLEAN, gitOk \in BOOLEAN :
        /\ steps < MaxSteps
        /\ TmpClone2 \notin DOMAIN fs
        /\ LET out == getRemoteCommitHash(fs, remote, cloneOk, gitOk)
           IN  /\ fs' = out.fs
               /\ last' = TmpLast("getRemoteCommitHash", mkdtemp(fs), cloneOk, TRUE,
                                  out.hash.present, fs)
        /\ steps' = steps + 1
        /\ UNCHANGED << arg, ret, lock, clock, procs, remote >>

CleanupCall ==
    \E dir \in CleanupPaths :
        /\ steps < MaxSteps
        /\ LET out == cleanupTempDir(fs, dir)
           IN  /\ fs' = out.fs
               /\ last' = TmpLast("cleanupTempDir", dir, TRUE, out.ok, FALSE, fs)
        /\ steps' = steps + 1
        /\ UNCHANGED << arg, ret, lock, clock, procs, remote >>

TmpNext == CloneCall \/ RemoteHashCall \/ RemoteCommitCall \/ CleanupCall

TmpSpec == TmpInit /\ [][TmpNext]_vars

\* ------------------------------------------------------------------------
\* commands: installSkill (install.ts), InstallFlow (install-flow.tsx) and
\* reinstallSkill (list-skills.tsx). A flow is a record: where it stands
\* (pc), the clone it holds (tempDir), the skill and the targets chosen, the
\* targets whose installSkillForAgent has not resolved yet (pending), the
\* results of the others, and the number of registry writes it has made
\* ------------------------------------------------------------------------
Range(seq) == { seq[i] : i \in DOMAIN seq }

\* getAllAgents(), and arrays of agents, in the order of the table
AgentOrder == << "cursor", "amp", "replit" >>

arrayOf(agentTypes) == SelectSeq(AgentOrder, LAMBDA a : a \in agentTypes)

NoResults == [a \in {} |-> NoResult]

Flow(kind, pc, outcome, tempDir, skillsFound, skill, targets, pending, results, mode, isGlobal, writes) ==
    [kind |-> kind, pc |-> pc, outcome |-> outcome, tempDir |-> tempDir,
     discovered |-> skillsFound, skill |-> skill, targets |-> targets, pending |-> pending,
     results |-> results, mode |-> mode, isGlobal |-> isGlobal, writes |-> writes]

NoFlow == Flow("none", "idle", "none", Undefined, << >>, NullDiscovered, {}, {}, NoResults,
               "symlink", TRUE, 0)

\* a flow that ended before any install was called
ended(kind, outcome, tempDir) ==
    Flow(kind, "done", outcome, tempDir, << >>, NullDiscovered, {}, {}, NoResults,
         "symlink", TRUE, 0)

\* `discovered.find(s => s.name === name)`: the index, 0 when there is none
findByName(skillsFound, name) ==
    LET found == { i \in DOMAIN skillsFound : skillsFound[i].name = name }
    IN  IF found = {} THEN 0 ELSE CHOOSE i \in found : \A j \in found : i <= j

\* installSkill: the agents to install to
selectAgents(detectedAgents, lastSelected) ==
    IF detectedAgents = {} THEN AgentTypes
    ELSE IF Cardinality(detectedAgents) = 1 THEN detectedAgents
    ELSE detectedAgents
         \cup (IF lastSelected = Undefined THEN {} ELSE Range(lastSelected) \cap AgentTypes)

\* installSkill, lines 51-97: the agents are chosen, the user confirms
installSkillChosen(cloned, discoveredSkills, found, selectedAgents, confirmed) ==
    IF found = 0 THEN ended("installSkill", "threw", cloned.tempDir)
    ELSE IF ~confirmed THEN ended("installSkill", "declined", cloned.tempDir)
    ELSE Flow("installSkill", "installing", "none", cloned.tempDir, discoveredSkills,
              discoveredSkills[found], selectedAgents, selectedAgents, NoResults,
              "symlink", TRUE, 0)

\* installSkill, lines 22-49: the skill is the first one discovered for a
\* URL, the named one for a Skill
installSkillDiscovered(cloned, discoveredSkills, file, byName, skillName, detectedAgents, confirmed) ==
    installSkillChosen(cloned, discoveredSkills,
                       findByName(discoveredSkills,
                                  IF byName THEN skillName
                                  ELSE IF Len(discoveredSkills) > 0
                                      THEN discoveredSkills[1].name
                                  ELSE << >>),
                       selectAgents(detectedAgents, getLastSelectedAgents(file)),
                       confirmed)

\* installSkill once cloneRepository has returned or thrown
installSkillCloned(cloned, file, order, byName, skillName, detectedAgents, confirmed) ==
    [fs |-> cloned.fs,
     flow |-> IF ~cloned.ok THEN ended("installSkill", "threw", Undefined)
              ELSE installSkillDiscovered(cloned,
                                          discoverSkills(cloned.fs, cloned.tempDir, Undefined,
                                                         order),
                                          file, byName, skillName, detectedAgents, confirmed)]

\* installSkill up to Promise.all: clone, discovery, the choice of the
\* skill and of the agents, the confirmation
installSkillBegin(fsys, file, repo, byName, skillName, detectedAgents, confirmed, cloneOk) ==
    installSkillCloned(cloneRepository(fsys, repo, cloneOk), file, orderOf(repo), byName,
                       skillName, detectedAgents, confirmed)

\* the wizard once the clone is there: with no skill discovered the catch
\* shows a toast and the wizard stays at its first step
metadataLoaded(cloned, skillsFound) ==
    IF ~cloned.ok
        THEN Flow("InstallFlow", "metadata", "threw", Undefined, << >>, NullDiscovered, {}, {},
                  NoResults, "symlink", TRUE, 0)
    ELSE IF Len(skillsFound) = 0
        THEN Flow("InstallFlow", "metadata", "threw", cloned.tempDir, << >>, NullDiscovered,
                  {}, {}, NoResults, "symlink", TRUE, 0)
    ELSE Flow("InstallFlow", "summary", "none", cloned.tempDir, skillsFound, NullDiscovered,
              {}, {}, NoResults, "symlink", TRUE, 0)

loadedFrom(cloned, order) ==
    [fs |-> cloned.fs,
     flow |-> metadataLoaded(cloned,
                             discoverSkills(cloned.fs, cloned.tempDir, Undefined, order))]

\* InstallFlow's loadRepositoryMetadata: the clone is kept in the state of
\* the wizard
loadRepositoryMetadata(fsys, repo, cloneOk) ==
    loadedFrom(cloneRepository(fsys, repo, cloneOk), orderOf(repo))

\* reinstallSkill: the mode of the first agent's directory, link or copy
detectedMode(fsys, view) ==
    LET agentBase == agentBaseOf(arrayOf(view.agents)[1], view.scope = "global", ProcessCwd)
    IN  IF agentBase = Undefined THEN "symlink"
        ELSE IF ~lstatOk(fsys, join2(agentBase, sanitizeName(view.name))) THEN "symlink"
        ELSE IF fsys[join2(agentBase, sanitizeName(view.name))].kind = "link" THEN "symlink"
        ELSE "copy"

\* reinstallSkill, lines 241-275: the skill of the view is looked up in
\* the clone; when it is not there, `finally` cleans the clone up
reinstallFound(cloned, skillsFound, found, view, installMode) ==
    IF found = 0
        THEN [fs |-> cleanupTempDir(cloned.fs, cloned.tempDir).fs,
              flow |-> ended("reinstallSkill", "threw", cloned.tempDir)]
    ELSE [fs |-> cloned.fs,
          flow |-> Flow("reinstallSkill", "installing", "none", cloned.tempDir, skillsFound,
                        skillsFound[found], view.agents, view.agents, NoResults,
                        installMode, view.scope = "global", 0)]

reinstallDiscovered(cloned, skillsFound, view, installMode) ==
    reinstallFound(cloned, skillsFound, findByName(skillsFound, view.name), view, installMode)

\* reinstallSkill once cloneRepository has returned or thrown
reinstallCloned(cloned, order, view, installMode) ==
    IF ~cloned.ok
        THEN [fs |-> cloned.fs, flow |-> ended("reinstallSkill", "threw", Undefined)]
    ELSE reinstallDiscovered(cloned,
                             discoverSkills(cloned.fs, cloned.tempDir, Undefined, order),
                             view, installMode)

\* reinstallSkill up to Promise.all; a view without source URL or agents
\* and a declined confirmation end it before anything is cloned
reinstallSkillBegin(fsys, repo, view, confirmed, cloneOk) ==
    IF view.sourceUrl = Undefined \/ view.agents = {}
        THEN [fs |-> fsys, flow |-> ended("reinstallSkill", "refused", Undefined)]
    ELSE IF ~confirmed
        THEN [fs |-> fsys, flow |-> ended("reinstallSkill", "declined", Undefined)]
    ELSE reinstallCloned(cloneRepository(fsys, repo, cloneOk), orderOf(repo), view,
                         detectedMode(fsys, view))

\* the flow with the result of one more call
resolvedWith(flow, agentType, out) ==
    [fs |-> out.fs,
     flow |-> [flow EXCEPT !.pending = @ \ { agentType },
                           !.results = (agentType :> out.result) @@ @]]

\* one of the calls of Promise.all resolves
targetInstalled(fsys, flow, agentType, symlinkOk) ==
    resolvedWith(flow, agentType,
                 installSkillForAgent(fsys, flow.skill, agentType,
                                      [global |-> flow.isGlobal,
                                       cwd |-> IF flow.isGlobal THEN Undefined
                                               ELSE ProcessCwd,
                                       mode |-> flow.mode],
                                      symlinkOk))

successful(flow) == { a \in DOMAIN flow.results : flow.results[a].success }

failed(flow) == { a \in DOMAIN flow.results : ~flow.results[a].success }

\* a flow that goes on as soon as one call has resolved
allResolved_any(flow) == flow.pending # flow.targets

\* `await Promise.all(...)`: every call has resolved
allResolved(flow) == flow.pending = {}

\* what the flows hand to addSkillToLock
FlowMetadata(url, gitCommitHash) ==
    [source |-> Opaque(url), sourceType |-> Opaque("github"), sourceUrl |-> Opaque(url),
     skillPath |-> Undefined, skillFolderHash |-> Undefined,
     gitCommitHash |-> IF gitCommitHash.present THEN << "commit", gitCommitHash.of >>
                       ELSE Undefined]

\* the two writes of a flow: the entry of the skill, the agents chosen
recorded(file, flow, gitCommitHash, agentTypes, now) ==
    saveSelectedAgents(addSkillToLock(file, sanitizeName(flow.skill.name),
                                      FlowMetadata(SourceUrl, gitCommitHash), now),
                       arrayOf(agentTypes))

\* getLatestCommitHash(tempDir) of a flow: null without the clone
commitOf(fsys, repo, flow, gitOk) ==
    getLatestCommitHash(repo, gitOk /\ flow.tempDir \in DOMAIN fsys)

\* the rest of a flow after Promise.all: a failed target throws; installSkill
\* throws without a commit hash too; the registry is written; `finally`
\* cleans the clone up. InstallFlow stays at the summary when it threw
afterInstalls(fsys, file, repo, flow, gitOk, now) ==
    LET gitCommitHash == commitOf(fsys, repo, flow, gitOk)
        cleaned == cleanupTempDir(fsys, flow.tempDir).fs
        threw == failed(flow) # {}
                 \/ (flow.kind = "installSkill" /\ ~gitCommitHash.present)
        agentTypes == IF flow.kind = "InstallFlow" THEN successful(flow) ELSE flow.targets
    IN  IF threw
            THEN [fs |-> cleaned, lock |-> file,
                  flow |-> [flow EXCEPT !.pc = IF flow.kind = "InstallFlow" THEN "summary"
                                                ELSE "done",
                                        !.outcome = "threw"]]
        ELSE [fs |-> cleaned,
              lock |-> recorded(file, flow, gitCommitHash, agentTypes, now),
              flow |-> [flow EXCEPT !.pc = "done", !.outcome = "installed",
                                    !.writes = @ + 2]]

\* ------------------------------------------------------------------------
\* Specification FlowSpec: one install flow from its start to its end, on a
\* home where nothing or one skill is installed
\* ------------------------------------------------------------------------
MaxFlows == 1

\* the home with My Skill installed for cursor and amp from the repository
\* of one skill, by links, and the registry that goes with it
InstalledDir == join2(getCanonicalSkillsDir(TRUE, ProcessCwd), MySkillDir)

InstalledCanonical ==
    place(UpdFs, getCanonicalSkillsDir(TRUE, ProcessCwd), MySkillDir,
          Dir(SKILL_MD :> File(Content(MySkill, 1))))

InstalledCursor ==
    place(InstalledCanonical, agentBaseOf("cursor", TRUE, ProcessCwd), MySkillDir,
          Link(relative(agentBaseOf("cursor", TRUE, ProcessCwd), InstalledDir)))

InstalledFs ==
    place(InstalledCursor, agentBaseOf("amp", TRUE, ProcessCwd), MySkillDir,
          Link(relative(agentBaseOf("amp", TRUE, ProcessCwd), InstalledDir)))

InstalledLock ==
    saveSelectedAgents(addSkillToLock(NoFile, MySkillDir,
                                      FlowMetadata(SourceUrl, Hash(1)), 1),
                       << "cursor", "amp" >>)

\* lastSelectedAgents is absent, names an agent, or names an agent without
\* global directory and one that is no agent any more
FlowStarts ==
    { [fs |-> UpdFs, lock |-> NoFile],
      [fs |-> UpdFs, lock |-> saveSelectedAgents(NoFile, << "amp" >>)],
      [fs |-> UpdFs, lock |-> saveSelectedAgents(NoFile, << "replit", "gone" >>)],
      [fs |-> InstalledFs, lock |-> InstalledLock] }

FlowDetections == { {}, { "cursor" }, { "cursor", "amp" } }

\* the agents chosen in the wizard
AgentChoices == { { "cursor" }, { "cursor", "amp" }, { "amp", "replit" } }

\* detectedAgents: what detectInstalledAgents returned to the flow;
\* lockBefore, fsBefore: the registry and the filesystem the flow found
FlowLast(op, detectedAgents, lockBefore, fsBefore) ==
    [op |-> op, detectedAgents |-> detectedAgents, lockBefore |-> lockBefore,
     fsBefore |-> fsBefore]

FlowInit ==
    /\ arg = NoArg
    /\ ret = NoRet
    /\ \E start \in FlowStarts : fs = start.fs /\ lock = start.lock
    /\ last = FlowLast("none", {}, NoFile, EmptyFs)
    /\ steps = 0
    /\ clock = StartTime
    /\ procs = NoFlow
    /\ remote \in Repos \cup { EmptyRepo }

\* installSkill(url) or installSkill(skill) is called
InstallSkillBegin ==
    \E byName \in BOOLEAN, skillName \in SkillNames, detectedAgents \in FlowDetections,
       confirmed \in BOOLEAN, cloneOk \in BOOLEAN :
        /\ steps < MaxFlows
        /\ procs.pc = "idle"
        /\ (~byName => skillName = MySkill)
        /\ LET out == installSkillBegin(fs, lock, remote, byName, skillName, detectedAgents,
                                        confirmed, cloneOk)
           IN  /\ fs' = out.fs
               /\ procs' = out.flow
        /\ last' = FlowLast("installSkill", detectedAgents, lock, fs)
        /\ steps' = steps + 1
        /\ UNCHANGED << arg, ret, lock, clock, remote >>

\* the wizard is opened
LoadMetadata ==
    \E cloneOk \in BOOLEAN :
        /\ steps < MaxFlows
        /\ procs.pc = "idle"
        /\ LET out == loadRepositoryMetadata(fs, remote, cloneOk)
           IN  /\ fs' = out.fs
               /\ procs' = out.flow
        /\ last' = FlowLast("InstallFlow", {}, lock, fs)
        /\ steps' = steps + 1
        /\ UNCHANGED << arg, ret, lock, clock, remote >>

\* handleInstallation up to Promise.all, with the first skill selected, the
\* agents and the method chosen in the wizard; after a failure, from the
\* summary again with the selections of the state
HandleInstallation ==
    \E x \in 1..2, agentTypes \in AgentChoices, method \in Modes :
        /\ procs.kind = "InstallFlow"
        /\ procs.pc = "summary"
        /\ procs.tempDir # Undefined
        /\ x <= Len(procs.discovered)
        /\ procs.outcome = "threw" =>
              /\ procs.discovered[x] = procs.skill
              /\ agentTypes = procs.targets
              /\ method = procs.mode
        /\ procs' = [procs EXCEPT !.pc = "installing", !.outcome = "none",
                                  !.skill = procs.discovered[x], !.targets = agentTypes,
                                  !.pending = agentTypes, !.results = NoResults,
                                  !.mode = method]
        /\ UNCHANGED << arg, ret, fs, lock, last, steps, clock, remote >>

\* the wizard is left without installing
LeaveWizard ==
    /\ procs.kind = "InstallFlow"
    /\ procs.pc \in { "metadata", "summary" }
    /\ procs' = [procs EXCEPT !.pc = "done",
                              !.outcome = IF @ = "none" THEN "left" ELSE @]
    /\ UNCHANGED << arg, ret, fs, lock, last, steps, clock, remote >>

\* reinstallSkill(view) from the list of installed skills
ReinstallBegin ==
    \E detectedAgents \in FlowDetections, confirmed \in BOOLEAN, cloneOk \in BOOLEAN :
        /\ steps < MaxFlows
        /\ procs.pc = "idle"
        /\ \E view \in listInstalledSkills(fs, lock, detectedAgents,
                                           [global |-> "true", cwd |-> Undefined,
                                            agentFilter |-> [given |-> FALSE, list |-> {}]],
                                           << MySkillDir >>) :
              LET out == reinstallSkillBegin(fs, remote, view, confirmed, cloneOk)
              IN  /\ fs' = out.fs
                  /\ procs' = out.flow
        /\ last' = FlowLast("reinstallSkill", detectedAgents, lock, fs)
        /\ steps' = steps + 1
        /\ UNCHANGED << arg, ret, lock, clock, remote >>

\* one installSkillForAgent of Promise.all resolves, in any order
InstallTarget ==
    \E agentType \in procs.pending, symlinkOk \in BOOLEAN :
        /\ procs.pc = "installing"
        /\ LET out == targetInstalled(fs, procs, agentType, symlinkOk)
           IN  /\ fs' = out.fs
               /\ procs' = out.flow
        /\ UNCHANGED << arg, ret, lock, last, steps, clock, remote >>

\* Promise.all has resolved: the flow runs to its end
FinishFlow ==
    \E gitOk \in BOOLEAN :
        /\ procs.pc = "installing"
        /\ allResolved(procs)
        /\ LET out == afterInstalls(fs, lock, remote, procs, gitOk, clock)
           IN  /\ fs' = out.fs
               /\ lock' = out.lock
               /\ procs' = out.flow
               /\ clock' = IF out.flow.outcome = "installed" THEN clock + 1 ELSE clock
        /\ UNCHANGED << arg, ret, last, steps, remote >>

FlowNext ==
    \/ InstallSkillBegin
    \/ LoadMetadata
    \/ HandleInstallation
    \/ LeaveWizard
    \/ ReinstallBegin
    \/ InstallTarget
    \/ FinishFlow

FlowSpec == FlowInit /\ [][FlowNext]_vars

\* ------------------------------------------------------------------------
\* Specification ReadSpec: the installed skills are listed and checked for
\* updates, with the registry in good order, missing, broken or stale
\* ------------------------------------------------------------------------
ReadLocks ==
    { NoFile,
      InstalledLock,
      FileOf("invalid", FALSE, 0, "absent", NoEntries, Undefined, "undefined"),
      FileOf("value", TRUE, CURRENT_VERSION - 1, "map", OldEntries, << "cursor" >>,
             "undefined") }

\* the source as it was installed, and one commit on
ReadRepos == { Repo(1, Content(MySkill, 1), << >>), Repo(2, Content(MySkill, 2), << >>) }

ReadLast(op, name, cloneOk, status, views) ==
    [op |-> op, name |-> name, cloneOk |-> cloneOk, status |-> status, views |-> views]

ReadInit ==
    /\ arg = NoArg
    /\ ret = NoRet
    /\ fs \in { UpdFs, InstalledFs }
    /\ lock \in ReadLocks
    /\ last = ReadLast("none", << >>, TRUE, "none", {})
    /\ steps = 0
    /\ clock = StartTime
    /\ procs = NoProcs
    /\ remote \in ReadRepos

\* loadInstalledSkills
ReadList ==
    \E global \in { "undefined", "true" }, detectedAgents \in FlowDetections :
        /\ steps < MaxSteps
        /\ last' = ReadLast("listInstalledSkills", << >>, TRUE, "none",
                            listInstalledSkills(fs, lock, detectedAgents,
                                                [global |-> global, cwd |-> Undefined,
                                                 agentFilter |-> [given |-> FALSE,
                                                                  list |-> {}]],
                                                << MySkillDir >>))
        /\ steps' = steps + 1
        /\ UNCHANGED << arg, ret, fs, lock, clock, procs, remote >>

\* checkUpdateForSkill: checkForUpdates(name, sourceUrl, undefined, { global })
ReadCheck ==
    \E name \in SkillNames, cloneOk \in BOOLEAN, global \in BOOLEAN :
        /\ steps < MaxSteps
        /\ LET out == checkForUpdates(fs, remote, cloneOk, name, Undefined,
                                      [global |-> global, cwd |-> Undefined])
           IN  /\ fs' = out.fs
               /\ last' = ReadLast("checkForUpdates", name, cloneOk,
                                   IF out.status.hasUpdate THEN "update_available"
                                   ELSE "none", {})
        /\ steps' = steps + 1
        /\ UNCHANGED << arg, ret, lock, clock, procs, remote >>

ReadState ==
    \E name \in SkillNames, cloneOk \in BOOLEAN :
        /\ steps < MaxSteps
        /\ LET out == getSkillInstallState(fs, remote, cloneOk, name, Undefined,
                                           [global |-> TRUE, cwd |-> Undefined])
           IN  /\ fs' = out.fs
               /\ last' = ReadLast("getSkillInstallState", name, cloneOk, out.status, {})
        /\ steps' = steps + 1
        /\ UNCHANGED << arg, ret, lock, clock, procs, remote >>

\* checkForUpdates by commit hash: it reads the registry for the commit the
\* skill was installed at
ReadCheckByCommit ==
    \E name \in SkillNames, cloneOk \in BOOLEAN :
        /\ steps < MaxSteps
        /\ LET out == checkForUpdatesByCommit(fs, lock, remote, cloneOk, name)
           IN  /\ fs' = out.fs
               /\ last' = ReadLast("checkForUpdatesByCommit", name, cloneOk,
                                   IF out.status.hasUpdate THEN "update_available"
                                   ELSE "none", {})
        /\ steps' = steps + 1
        /\ UNCHANGED << arg, ret, lock, clock, procs, remote >>

ReadNext == ReadList \/ ReadCheck \/ ReadCheckByCommit \/ ReadState

ReadSpec == ReadInit /\ [][ReadNext]_vars

\* ------------------------------------------------------------------------
\* list-skills.tsx: deleteSkill
\* ------------------------------------------------------------------------
\* deleteSkill's loop: for each agent to delete that is detected and has a
\* base in the scope of the skill, join(agentBase, sanitizeName(skill.name))
agentSkillDirs(skill, agentsToDelete, detectedAgents) ==
    { join2(agentBaseOf(agent, skill.scope = "global", ProcessCwd), sanitizeName(skill.name)) :
        agent \in { agent \in agentsToDelete \cap detectedAgents :
                      agentBaseOf(agent, skill.scope = "global", ProcessCwd) # Undefined } }

\* rm(path, { recursive: true, force: true }) of each path
RECURSIVE rmEach(_, _)
rmEach(fsys, paths) ==
    IF paths = {} THEN fsys
    ELSE rmEach(rm(fsys, CHOOSE path \in paths : TRUE),
                paths \ { CHOOSE path \in paths : TRUE })

\* deleteSkill once confirmed; agentType is an agent or "undefined" (all
\* agents of the view, then the canonical directory and the registry entry)
deleteSkill(fsys, file, skill, agentType, detectedAgents) ==
    IF agentType # "undefined"
        THEN [fs |-> rmEach(fsys, agentSkillDirs(skill, { agentType }, detectedAgents)),
              lock |-> file]
    ELSE [fs |-> rm(rmEach(fsys, agentSkillDirs(skill, skill.agents, detectedAgents)),
                    skill.canonicalPath),
          lock |-> removeSkillFromLock(file, skill.name)]

\* ------------------------------------------------------------------------
\* Specification DelSpec: a skill of the list is deleted, from one of its
\* agents or from all, and the list is loaded again
\* ------------------------------------------------------------------------
NoView ==
    [name |-> << >>, description |-> << >>, path |-> << >>, canonicalPath |-> << >>,
     scope |-> "project", agents |-> {}, sourceUrl |-> Undefined, installedAt |-> 0,
     updatedAt |-> 0]

\* skill: the view deleteSkill was called with; lockBefore: the registry
\* file at the call; views: what loadInstalledSkills shows afterwards
DelLast(op, skill, agentType, confirmed, lockBefore, views) ==
    [op |-> op, skill |-> skill, agentType |-> agentType, confirmed |-> confirmed,
     lockBefore |-> lockBefore, views |-> views]

DelInit ==
    /\ arg = NoArg
    /\ ret = NoRet
    /\ fs \in ListFs \cup { InstalledFs }
    /\ lock \in ListLocks
    /\ last = DelLast("none", NoView, "undefined", FALSE, NoFile, {})
    /\ steps = 0
    /\ clock = 0
    /\ procs = NoProcs
    /\ remote = NoRemote

ListOptions == [global |-> "undefined", cwd |-> Undefined,
                agentFilter |-> [given |-> FALSE, list |-> {}]]

\* the end of deleteSkill: the toast and loadInstalledSkills
Deleted(skill, agentType, detectedAgents, order, out) ==
    /\ fs' = out.fs
    /\ lock' = out.lock
    /\ last' = DelLast("deleteSkill", skill, agentType, TRUE, lock,
                       listInstalledSkills(out.fs, out.lock, detectedAgents, ListOptions,
                                           order))

\* the user deletes a skill of the list, from all agents or from one of
\* the agents the list shows for it
DeleteCall ==
    \E detectedAgents \in Detections, order \in EntryOrders :
        /\ steps < MaxSteps
        /\ \E skill \in listInstalledSkills(fs, lock, detectedAgents, ListOptions, order) :
              \E agentType \in { "undefined" } \cup skill.agents :
                  Deleted(skill, agentType, detectedAgents, order,
                          deleteSkill(fs, lock, skill, agentType, detectedAgents))
        /\ steps' = steps + 1
        /\ UNCHANGED << arg, ret, clock, procs, remote >>

\* the user declines the alert: deleteSkill returns
DeleteDeclined ==
    \E detectedAgents \in Detections, order \in EntryOrders :
        /\ steps < MaxSteps
        /\ \E skill \in listInstalledSkills(fs, lock, detectedAgents, ListOptions, order) :
              \E agentType \in { "undefined" } \cup skill.agents :
                  last' = DelLast("deleteSkill", skill, agentType, FALSE, lock, {})
        /\ steps' = steps + 1
        /\ UNCHANGED << arg, ret, fs, lock, clock, procs, remote >>

DelNext == DeleteCall \/ DeleteDeclined

DelSpec == DelInit /\ [][DelNext]_vars

\* ------------------------------------------------------------------------
\* installSkillForAgent in link mode, call by call of fs/promises: the
\* calls of Promise.all run at once and each `await` is a point where
\* another call goes on. A directory inside the skill directory is named
\* by the sequence of names that leads to it from the skill directory
\* ------------------------------------------------------------------------
\* the files and the directories of a tree, by their paths from its root
RECURSIVE filesOf(_)
filesOf(tree) ==
    { << n >> : n \in { n \in DOMAIN tree : ~tree[n].isDirectory } }
    \cup UNION { { << n >> \o p : p \in filesOf(tree[n].entries) } :
                 n \in { n \in DOMAIN tree : tree[n].isDirectory } }

RECURSIVE dirsOf(_)
dirsOf(tree) ==
    { << n >> : n \in { n \in DOMAIN tree : tree[n].isDirectory } }
    \cup UNION { { << n >> \o p : p \in dirsOf(tree[n].entries) } :
                 n \in { n \in DOMAIN tree : tree[n].isDirectory } }

parentOf(p) == SubSeq(p, 1, Len(p) - 1)

RECURSIVE hasDirIn(_, _)
hasDirIn(tree, d) ==
    \/ d = << >>
    \/ /\ Head(d) \in DOMAIN tree
       /\ tree[Head(d)].isDirectory
       /\ hasDirIn(tree[Head(d)].entries, Tail(d))

\* the directory d of the skill directory at dest is there
dirExists(fsys, dest, d) ==
    /\ dest \in DOMAIN fsys
    /\ fsys[dest].kind = "dir"
    /\ hasDirIn(fsys[dest].entries, d)

subEntries(tree, n) ==
    IF n \in DOMAIN tree /\ tree[n].isDirectory THEN tree[n].entries ELSE EmptyEntries

RECURSIVE mkdirIn(_, _)
mkdirIn(tree, d) ==
    IF d = << >> THEN tree
    ELSE (Head(d) :> SubDir(mkdirIn(subEntries(tree, Head(d)), Tail(d)))) @@ tree

\* mkdir(join(dest, d), { recursive: true })
mkdirAt(fsys, dest, d) ==
    Put(mkdir(fsys, dest), dest, Dir(mkdirIn(mkdir(fsys, dest)[dest].entries, d)))

RECURSIVE fileIn(_, _)
fileIn(tree, f) ==
    IF Len(f) = 1 THEN tree[f[1]] ELSE fileIn(tree[Head(f)].entries, Tail(f))

RECURSIVE writeIn(_, _, _)
writeIn(tree, f, node) ==
    IF Len(f) = 1 THEN (f[1] :> node) @@ tree
    ELSE (Head(f) :> SubDir(writeIn(tree[Head(f)].entries, Tail(f), node))) @@ tree

\* copyFile(src, join(dest, f)) into a directory that is there
copyFileAt(fsys, dest, f, node) ==
    Put(fsys, dest, Dir(writeIn(fsys[dest].entries, f, node)))

\* the entries of the skill directory without those of the names given
without(tree, names) == [n \in (DOMAIN tree) \ names |-> tree[n]]

\* one call of installSkillForAgent in flight. pc: the call it is at;
\* doomed: the entries rm has read and not yet removed; made: the
\* directories copyDirectory has created; opened: the files whose cp has
\* found the parent directory and not yet written; written: the files
\* copied
Call(pc, doomed, made, opened, copied, result) ==
    [pc |-> pc, doomed |-> doomed, made |-> made, opened |-> opened, written |-> copied,
     result |-> result]

NewCall == Call("rm", {}, {}, {}, {}, NoResult)

Returned(call, result) == [call EXCEPT !.pc = "returned", !.result = result]

\* ------------------------------------------------------------------------
\* Specification ParSpec: handleInstallation's Promise.all. One skill is
\* installed in link mode for several agents at once; procs holds the call
\* of each agent, arg the skill and the scope they share
\* ------------------------------------------------------------------------
\* the agents chosen: two with directories of their own in the global
\* scope; in the project scope one whose directory is the canonical one
ParTargets == { [isGlobal |-> TRUE, agentTypes |-> { "cursor", "amp" }],
                [isGlobal |-> FALSE, agentTypes |-> { "cursor", "amp" }],
                [isGlobal |-> FALSE, agentTypes |-> { "cursor", "replit" }] }

ParArg(skill, isGlobal) == [fn |-> "Promise.all", skill |-> skill, isGlobal |-> isGlobal]

ParOptions(isGlobal) == [global |-> isGlobal, cwd |-> Undefined, mode |-> "symlink"]

\* nothing installed, or the first version of the skill installed for cursor
ParStarts(isGlobal) ==
    { BaseFs,
      installSkillForAgent(BaseFs, discovered(BaseFs, SourceDir(1)), "cursor",
                           ParOptions(isGlobal), TRUE).fs }

ParInit ==
    /\ \E target \in ParTargets :
          /\ arg = ParArg(discovered(BaseFs, SourceDir(2)), target.isGlobal)
          /\ fs \in ParStarts(target.isGlobal)
          /\ procs = [a \in target.agentTypes |-> NewCall]
    /\ ret = NoRet
    /\ lock = NoFile
    /\ last = NoLast
    /\ steps = 0
    /\ clock = 0
    /\ remote = NoRemote

\* installSkillForAgent: canonicalDir, agentDir
ParCanonicalDir == canonicalDirOf(arg.skill, arg.isGlobal, ProcessCwd)
ParAgentDir(a) == agentDirOf(arg.skill, a, arg.isGlobal, ProcessCwd)

\* what copyDirectory is to copy: the source without the excluded entries
ParWanted == copyTree(treeAt(fs, arg.skill.path), EmptyEntries)

ParFrame == UNCHANGED << arg, ret, lock, last, steps, clock, remote >>

\* cleanAndCreateDirectory: rm(path, { recursive, force }) begins. Nothing
\* there, or an empty directory: done; otherwise it reads the entries
RmBegin(a) ==
    /\ procs[a].pc = "rm"
    /\ IF ParCanonicalDir \notin DOMAIN fs
           THEN /\ fs' = fs
                /\ procs' = [procs EXCEPT ![a].pc = "mkdir"]
       ELSE IF DOMAIN fs[ParCanonicalDir].entries = {}
           THEN /\ fs' = rm(fs, ParCanonicalDir)
                /\ procs' = [procs EXCEPT ![a].pc = "mkdir"]
       ELSE /\ fs' = fs
            /\ procs' = [procs EXCEPT ![a].pc = "unlink",
                                      ![a].doomed = DOMAIN fs[ParCanonicalDir].entries]
    /\ ParFrame

\* rm removes one of the entries it has read (force: one that is gone
\* already is no error); last remembers that it did so after another call
\* had written a file
RmUnlink(a) ==
    /\ procs[a].pc = "unlink"
    /\ \E n \in procs[a].doomed :
          /\ fs' = IF ParCanonicalDir \in DOMAIN fs
                       THEN Put(fs, ParCanonicalDir,
                                Dir(without(fs[ParCanonicalDir].entries, { n })))
                   ELSE fs
          /\ procs' = [procs EXCEPT ![a].doomed = @ \ { n }]
    /\ last' = IF \E b \in DOMAIN procs : b # a /\ procs[b].written # {}
                   THEN [op |-> "overlap"]
               ELSE last
    /\ UNCHANGED << arg, ret, lock, steps, clock, remote >>

\* rm removes the directory; ENOTEMPTY when another call has written into
\* it meanwhile, which cleanAndCreateDirectory's catch ignores
RmDir(a) ==
    /\ procs[a].pc = "unlink"
    /\ procs[a].doomed = {}
    /\ fs' = IF ParCanonicalDir \in DOMAIN fs /\ DOMAIN fs[ParCanonicalDir].entries = {}
                 THEN rm(fs, ParCanonicalDir)
             ELSE fs
    /\ procs' = [procs EXCEPT ![a].pc = "mkdir"]
    /\ ParFrame

\* cleanAndCreateDirectory: mkdir(path, { recursive: true })
Mkdir(a) ==
    /\ procs[a].pc = "mkdir"
    /\ fs' = mkdir(fs, ParCanonicalDir)
    /\ procs' = [procs EXCEPT ![a].pc = "copyDirectory"]
    /\ ParFrame

\* copyDirectory(skill.path, canonicalDir): mkdir(dest), readdir(src)
CopyBegin(a) ==
    /\ procs[a].pc = "copyDirectory"
    /\ fs' = mkdir(fs, ParCanonicalDir)
    /\ procs' = [procs EXCEPT ![a].pc = "copy", ![a].made = { << >> }]
    /\ ParFrame

\* copyDirectory of a directory of the source: mkdir(dest), readdir(src)
CopySub(a) ==
    /\ procs[a].pc = "copy"
    /\ \E d \in dirsOf(ParWanted) \ procs[a].made :
          /\ parentOf(d) \in procs[a].made
          /\ fs' = mkdirAt(fs, ParCanonicalDir, d)
          /\ procs' = [procs EXCEPT ![a].made = @ \cup { d }]
    /\ ParFrame

\* cp(srcPath, destPath) of a file begins: it creates the parent directory
\* of destPath when that is missing
CpBegin(a) ==
    /\ procs[a].pc = "copy"
    /\ \E f \in filesOf(ParWanted) \ (procs[a].opened \cup procs[a].written) :
          /\ parentOf(f) \in procs[a].made
          /\ fs' = IF dirExists(fs, ParCanonicalDir, parentOf(f)) THEN fs
                   ELSE mkdirAt(fs, ParCanonicalDir, parentOf(f))
          /\ procs' = [procs EXCEPT ![a].opened = @ \cup { f }]
    /\ ParFrame

\* cp writes the file: ENOENT when the parent directory has gone
\* meanwhile, and installSkillForAgent's catch returns the failure
CpCopyFile(a) ==
    /\ procs[a].pc = "copy"
    /\ \E f \in procs[a].opened :
          IF dirExists(fs, ParCanonicalDir, parentOf(f))
              THEN /\ fs' = copyFileAt(fs, ParCanonicalDir, f, fileIn(ParWanted, f))
                   /\ procs' = [procs EXCEPT ![a].opened = @ \ { f },
                                             ![a].written = @ \cup { f }]
          ELSE /\ fs' = fs
               /\ procs' = [procs EXCEPT
                               ![a] = Returned(@, IoFailure(fs, ParAgentDir(a),
                                                            "symlink").result)]
    /\ ParFrame

\* what createSymlink and the lines after it make of the call
linked(a, l) ==
    IF l.ok
        THEN [fs |-> l.fs,
              result |-> Result(TRUE, ParAgentDir(a), ParCanonicalDir, "symlink", FALSE, "")]
    ELSE fallbackInstall(l.fs, arg.skill, ParCanonicalDir, ParAgentDir(a), "symlink")

Linked(a, out) ==
    /\ fs' = out.fs
    /\ procs' = [procs EXCEPT ![a] = Returned(@, out.result)]

\* a copyDirectory that resolves without awaiting the copies of its files
CreateLink_unawaited(a) ==
    /\ procs[a].pc = "copy"
    /\ procs[a].made = dirsOf(ParWanted) \cup { << >> }
    /\ Linked(a, linked(a, createSymlink(fs, ParCanonicalDir, ParAgentDir(a), TRUE)))
    /\ ParFrame

\* copyDirectory has resolved: createSymlink(canonicalDir, agentDir)
CreateLink(a) ==
    /\ procs[a].pc = "copy"
    /\ procs[a].made = dirsOf(ParWanted) \cup { << >> }
    /\ procs[a].written = filesOf(ParWanted)
    /\ Linked(a, linked(a, createSymlink(fs, ParCanonicalDir, ParAgentDir(a), TRUE)))
    /\ ParFrame

ParNext ==
    \E a \in DOMAIN procs :
        \/ RmBegin(a)
        \/ RmUnlink(a)
        \/ RmDir(a)
        \/ Mkdir(a)
        \/ CopyBegin(a)
        \/ CopySub(a)
        \/ CpBegin(a)
        \/ CpCopyFile(a)
        \/ CreateLink(a)

ParSpec == ParInit /\ [][ParNext]_vars

\* ------------------------------------------------------------------------
\* Specification CopySpec: installSkillForAgent on cloned skills of every
\* shape: beside the descriptor, each of the names is absent, a file, or a
\* directory that holds the same names once more
\* ------------------------------------------------------------------------
TreeNames == { N_readme, N_metadata, N_hidden, N_git, N_old }

\* the inside of a directory of the clone
InnerTree ==
    (N_old :> File(Plain(1))) @@ (N_readme :> File(Plain(1)))
    @@ (N_metadata :> SubDir(N_old :> File(Plain(1))))
    @@ (N_hidden :> File(Plain(1))) @@ (N_git :> File(Plain(1)))
    @@ (N_sub :> SubDir((N_new :> File(Plain(1))) @@ (N_git :> SubDir(N_old :> File(Plain(1))))
                        @@ (N_hidden :> SubDir(N_old :> File(Plain(1))))))

Shapes == { "absent", "file", "dir" }

\* the clone whose entry of each name has the shape given
TreeOf(shape) ==
    (SKILL_MD :> File(Descriptor(MySkill, 1)))
    @@ [n \in { n \in TreeNames : shape[n] # "absent" } |->
           IF shape[n] = "file" THEN File(Plain(1)) ELSE SubDir(InnerTree)]

CopyInit ==
    /\ \E shape \in [TreeNames -> Shapes] :
          /\ arg = [fn |-> "installSkillForAgent", tree |-> TreeOf(shape)]
          /\ fs = Put(PriorFs, SourceDir(1), Dir(TreeOf(shape)))
    /\ ret = NoRet
    /\ lock = NoFile
    /\ last = Last("none", NoSkill, "cursor", NoOptions, TRUE, NoNode, NoResult, {})
    /\ steps = 0
    /\ clock = 0
    /\ procs = NoProcs
    /\ remote = NoRemote

\* the end of the call
Installed1(skill, agentType, options, symlinkOk, out) ==
    /\ fs' = out.fs
    /\ last' = Last("install", skill, agentType, options, symlinkOk, NoNode, out.result, {})

\* one call of installSkillForAgent on the clone
TreeInstall ==
    \E agentType \in { "cursor", "amp" }, g \in BOOLEAN, m \in Modes, symlinkOk \in BOOLEAN :
        /\ steps = 0
        /\ (m = "copy" => symlinkOk)
        /\ Installed1(discovered(fs, SourceDir(1)), agentType,
                      [global |-> g, cwd |-> Undefined, mode |-> m], symlinkOk,
                      installSkillForAgent(fs, discovered(fs, SourceDir(1)), agentType,
                                           [global |-> g, cwd |-> Undefined, mode |-> m],
                                           symlinkOk))
        /\ steps' = steps + 1
        /\ UNCHANGED << arg, ret, lock, clock, procs, remote >>

CopyNext == TreeInstall

CopySpec == CopyInit /\ [][CopyNext]_vars

\* ------------------------------------------------------------------------
\* Specification PairSpec: skills of different declared names are installed
\* and recorded one after the other, as handleInstallation does; two of the
\* names have the same sanitized form
\* ------------------------------------------------------------------------
OtherSource == << "/", "t", "/", "3" >>

\* the clones: `My Skill`, `My:Skill` and `Other`
PairSources == { SourceDir(1), SourceDir(2), OtherSource }

PairFs ==
    Put(Put(BaseFs, SourceDir(2), Dir(SKILL_MD :> File(Descriptor(ColonSkill, 2)))),
        OtherSource, Dir(SKILL_MD :> File(Descriptor(OtherSkill, 3))))

PairInit ==
    /\ arg = NoArg
    /\ ret = NoRet
    /\ fs = PairFs
    /\ lock = NoFile
    /\ last = Last("none", NoSkill, "cursor", NoOptions, TRUE, NoNode, NoResult, {})
    /\ steps = 0
    /\ clock = StartTime
    /\ procs = NoProcs
    /\ remote = NoRemote

\* the end of handleInstallation for one agent: the registry is written
\* after a success
PairInstalled(skill, agentType, options, out) ==
    /\ fs' = out.fs
    /\ lock' = IF out.result.success
                   THEN addSkillToLock(lock, sanitizeName(skill.name),
                                       CommitMetadata(SourceUrl, 1), clock)
               ELSE lock
    /\ last' = Last("install", skill, agentType, options, TRUE, NoNode, out.result, {})

PairInstall ==
    \E src \in PairSources, agentType \in { "cursor", "amp" }, g \in BOOLEAN, m \in Modes :
        /\ steps < MaxSteps
        /\ PairInstalled(discovered(fs, src), agentType,
                         [global |-> g, cwd |-> Undefined, mode |-> m],
                         installSkillForAgent(fs, discovered(fs, src), agentType,
                                              [global |-> g, cwd |-> Undefined, mode |-> m],
                                              TRUE))
        /\ steps' = steps + 1
        /\ clock' = clock + 1
        /\ UNCHANGED << arg, ret, procs, remote >>

PairNext == PairInstall

PairSpec == PairInit /\ [][PairNext]_vars

\* ------------------------------------------------------------------------
\* installer.ts: getInstallPath, and the throw of getCanonicalPath
\* ------------------------------------------------------------------------
\* `options.global && agent.globalSkillsDir !== undefined ? agent.globalSkillsDir
\*  : join(cwd, agent.skillsDir)`
targetBaseOf(agentType, options) ==
    IF options.global /\ agents[agentType].globalSkillsDir # Undefined
        THEN agents[agentType].globalSkillsDir
    ELSE join2(cwdOr(options.cwd), agents[agentType].skillsDir)

\* the installPath that getInstallPath returns, when it returns
getInstallPath(skillName, agentType, options) ==
    join2(targetBaseOf(agentType, options), sanitizeName(skillName))

\* getInstallPath throws the path-traversal error
getInstallPathThrows(skillName, agentType, options) ==
    ~isPathSafe(targetBaseOf(agentType, options),
                getInstallPath(skillName, agentType, options))

\* getCanonicalPath throws the path-traversal error
getCanonicalPathThrows(skillName, options) ==
    ~isPathSafe(getCanonicalSkillsDir(options.global, options.cwd),
                getCanonicalPath(skillName, options))

\* ------------------------------------------------------------------------
\* Specification DestSpec: a skill whose declared name is any short string
\* of letters, dots, slashes and backslashes (and a few longer names) is
\* installed for one agent and scope, several times over
\* ------------------------------------------------------------------------
MaxRaw == 3         \* characters of a declared name of DestSpec

DestAlphabet == { "a", ".", "/", "\\" }

DestNames ==
    UNION { [1..k -> DestAlphabet] : k \in 1..MaxRaw }
    \cup { << ".", ".", "/", ".", ".", "/", "a" >>,
           << ".", ".", "\\", "a" >>,
           << "/", "a", "/", ".", "." >>,
           << "-" >>, << "-", ".", "-" >>, << "a", " ", "-", "/" >> }

DestInit ==
    /\ \E name \in DestNames, agentType \in AgentTypes, g \in BOOLEAN :
          arg = [fn |-> "destinations", name |-> name, agentType |-> agentType,
                 global |-> g]
    /\ ret = NoRet
    /\ fs = BaseFs
    /\ lock = NoFile
    /\ last = Last("none", NoSkill, "cursor", NoOptions, TRUE, NoNode, NoResult, {})
    /\ steps = 0
    /\ clock = 0
    /\ procs = NoProcs
    /\ remote = NoRemote

\* the skill as parsed from the clone, under its declared name
DestSkill == [name |-> arg.name, description |-> << "d" >>, path |-> SourceDir(1)]

\* one call of installSkillForAgent
DestInstall ==
    \E m \in Modes :
        /\ arg.fn = "destinations"
        /\ steps < MaxSteps
        /\ Installed1(DestSkill, arg.agentType,
                      [global |-> arg.global, cwd |-> Undefined, mode |-> m], TRUE,
                      installSkillForAgent(fs, DestSkill, arg.agentType,
                                           [global |-> arg.global, cwd |-> Undefined,
                                            mode |-> m], TRUE))
        /\ steps' = steps + 1
        /\ UNCHANGED << arg, ret, lock, clock, procs, remote >>

DestNext == DestInstall

DestSpec == DestInit /\ [][DestNext]_vars

\* ------------------------------------------------------------------------
\* install-flow.tsx: the wizard InstallFlow. A wizard is the record of its
\* useState (state), the build it comes from (scoped: the build that asks
\* for the scope; the other build installs globally only), whether
\* loadRepositoryMetadata has run (loaded), the calls of Promise.all that
\* have not resolved (pending), the results of the others, and whether the
\* view is still on the navigation stack (open)
\* ------------------------------------------------------------------------
WizardSteps ==
    << "metadata", "skill-selection", "agent-selection", "scope-selection",
       "method-selection", "summary", "installing" >>

InstallFlowState(step, skillName, repositoryMetadata, discoveredSkills, selectedSkills, selectedAgents, scope, method, tempDir, isInstalling) ==
    [step |-> step, skillName |-> skillName, repositoryMetadata |-> repositoryMetadata,
     discoveredSkills |-> discoveredSkills, selectedSkills |-> selectedSkills,
     selectedAgents |-> selectedAgents, scope |-> scope, method |-> method,
     tempDir |-> tempDir, isInstalling |-> isInstalling]

\* repositoryMetadata: absent, or with the skills to show
NoRepositoryMetadata == [present |-> FALSE, skills |-> << >>]

RepositoryMetadata(skills) == [present |-> TRUE, skills |-> skills]

\* the argument of useState
InitialState(skillName) ==
    InstallFlowState("metadata", skillName, NoRepositoryMetadata, << >>, << >>, {}, "global",
                     "symlink", Undefined, FALSE)

Wizard(state, scoped, loaded, pending, results, open) ==
    [state |-> state, scoped |-> scoped, loaded |-> loaded, pending |-> pending,
     results |-> results, open |-> open]

\* `discovered.find(s => s.name.toLowerCase() === skillName.toLowerCase() ||
\*  sanitizeName(s.name) === sanitizeName(skillName))`: the index, or 0
findForWizard(skillsFound, skillName) ==
    LET hits == { i \in DOMAIN skillsFound :
                     \/ toLowerCase(skillsFound[i].name) = toLowerCase(skillName)
                     \/ sanitizeName(skillsFound[i].name) = sanitizeName(skillName) }
    IN  IF hits = {} THEN 0 ELSE CHOOSE i \in hits : \A j \in hits : i <= j

\* the skills shown at the first step
skillsToShow(skillsFound, skillName) ==
    IF skillName # Undefined /\ findForWizard(skillsFound, skillName) # 0
        THEN << skillsFound[findForWizard(skillsFound, skillName)] >>
    ELSE skillsFound

\* the state after loadRepositoryMetadata: a failed clone leaves it as it
\* is, a clone without skills leaves the clone in it
stateLoaded(state, cloned, skillsFound) ==
    IF ~cloned.ok THEN state
    ELSE IF Len(skillsFound) = 0 THEN [state EXCEPT !.tempDir = cloned.tempDir]
    ELSE [state EXCEPT !.tempDir = cloned.tempDir,
                       !.repositoryMetadata =
                           RepositoryMetadata(skillsToShow(skillsFound, state.skillName)),
                       !.discoveredSkills = skillsFound,
                       !.selectedSkills =
                           IF Len(skillsToShow(skillsFound, state.skillName)) = 1
                               THEN skillsToShow(skillsFound, state.skillName)
                           ELSE << >>]

wizardLoaded(state, cloned, order) ==
    [fs |-> cloned.fs,
     state |-> stateLoaded(state, cloned,
                           discoverSkills(cloned.fs, cloned.tempDir, Undefined, order))]

handleContinueToAgentSelection(state) ==
    IF Len(state.selectedSkills) = 0 /\ Len(state.discoveredSkills) > 1
        THEN [state EXCEPT !.step = "skill-selection"]
    ELSE IF Len(state.selectedSkills) = 0 /\ Len(state.discoveredSkills) = 1
        THEN [state EXCEPT !.selectedSkills = state.discoveredSkills,
                           !.step = "agent-selection"]
    ELSE [state EXCEPT !.step = "agent-selection"]

\* Select and Deselect of the list of skills
toggledSkill(state, skill) ==
    IF \E i \in DOMAIN state.selectedSkills : state.selectedSkills[i].path = skill.path
        THEN [state EXCEPT !.selectedSkills = SelectSeq(@, LAMBDA s : s.path # skill.path)]
    ELSE [state EXCEPT !.selectedSkills = Append(@, skill)]

handleSkillSelection(state, selected) ==
    [state EXCEPT !.selectedSkills = selected, !.step = "agent-selection"]

\* Select and Deselect of the list of agents
toggledAgent(state, agentType) ==
    IF agentType \in state.selectedAgents
        THEN [state EXCEPT !.selectedAgents = @ \ { agentType }]
    ELSE [state EXCEPT !.selectedAgents = @ \cup { agentType }]

\* Select All and Deselect All
toggledAll(state) ==
    IF state.selectedAgents = AgentTypes THEN [state EXCEPT !.selectedAgents = {}]
    ELSE [state EXCEPT !.selectedAgents = AgentTypes]

handleAgentSelection(state, agentTypes, scoped) ==
    IF scoped THEN [state EXCEPT !.selectedAgents = agentTypes, !.step = "scope-selection"]
    ELSE [state EXCEPT !.selectedAgents = agentTypes, !.scope = "global",
                       !.step = "method-selection"]

handleScopeSelection(state, scope, scoped) ==
    [state EXCEPT !.scope = IF scoped THEN scope ELSE "global",
                  !.step = "method-selection"]

handleMethodSelection(state, method) ==
    [state EXCEPT !.method = method, !.step = "summary"]

\* handleInstallation goes past its two early returns
installationStarts(state) == state.tempDir # Undefined /\ state.selectedAgents # {}

\* a reset that leaves the flag of the installation set
installationReset_keepsFlag(state) == [state EXCEPT !.step = "summary"]

\* `setState(prev => ({ ...prev, isInstalling: false, step: 'summary' }))`
installationReset(state) == [state EXCEPT !.isInstalling = FALSE, !.step = "summary"]

\* the installation as a flow: the first selected skill, the selected
\* agents, the scope of the build
flowOf(w) ==
    Flow("InstallFlow", "installing", "none", w.state.tempDir, w.state.discoveredSkills,
         w.state.selectedSkills[1], w.state.selectedAgents, w.pending, w.results,
         w.state.method, IF w.scoped THEN w.state.scope = "global" ELSE TRUE, 0)

\* the build that asks for the scope throws without a commit hash and
\* saves the selected agents; the other goes on and saves the successful
installationThrew(w, flow, gitCommitHash) ==
    failed(flow) # {} \/ (w.scoped /\ ~gitCommitHash.present)

registryAfter(file, w, flow, gitCommitHash, now) ==
    IF installationThrew(w, flow, gitCommitHash) THEN file
    ELSE IF ~w.scoped /\ successful(flow) = {} THEN file
    ELSE recorded(file, flow, gitCommitHash,
                  IF w.scoped THEN flow.targets ELSE successful(flow), now)

\* handleInstallation after Promise.all: [fs, lock, threw]
installationEnded(fsys, file, w, flow, gitCommitHash, now) ==
    [fs |-> cleanupTempDir(fsys, flow.tempDir).fs,
     lock |-> registryAfter(file, w, flow, gitCommitHash, now),
     threw |-> installationThrew(w, flow, gitCommitHash)]

\* ------------------------------------------------------------------------
\* Specification WizSpec: one wizard of either build from its opening on, on
\* a home where nothing is installed; WizFair adds that the calls of
\* installSkillForAgent resolve and handleInstallation runs to its end
\* ------------------------------------------------------------------------
WizNames == { Undefined, MySkill, OtherSkill }

WizInit ==
    /\ arg = NoArg
    /\ ret = NoRet
    /\ fs = UpdFs
    /\ lock = NoFile
    /\ last = NoLast
    /\ steps = 0
    /\ clock = StartTime
    /\ \E skillName \in WizNames, scoped \in BOOLEAN :
          procs = Wizard(InitialState(skillName), scoped, FALSE, {}, NoResults, TRUE)
    /\ remote \in Repos \cup { EmptyRepo }

WizFrame == UNCHANGED << arg, ret, fs, lock, last, steps, clock, remote >>

\* useEffect: loadRepositoryMetadata
WizLoad ==
    \E cloneOk \in BOOLEAN :
        /\ ~procs.loaded
        /\ LET out == wizardLoaded(procs.state, cloneRepository(fs, remote, cloneOk),
                                   orderOf(remote))
           IN  /\ fs' = out.fs
               /\ procs' = [procs EXCEPT !.state = out.state, !.loaded = TRUE]
        /\ UNCHANGED << arg, ret, lock, last, steps, clock, remote >>

\* Continue to Installation
WizContinue ==
    /\ procs.open
    /\ procs.state.step = "metadata"
    /\ procs.state.repositoryMetadata.present
    /\ procs' = [procs EXCEPT !.state = handleContinueToAgentSelection(@)]
    /\ WizFrame

WizToggleSkill ==
    \E i \in DOMAIN procs.state.discoveredSkills :
        /\ procs.open
        /\ procs.state.step = "skill-selection"
        /\ procs' = [procs EXCEPT !.state = toggledSkill(@, procs.state.discoveredSkills[i])]
        /\ WizFrame

\* Continue, offered with a skill selected
WizSkillsChosen ==
    /\ procs.open
    /\ procs.state.step = "skill-selection"
    /\ Len(procs.state.selectedSkills) > 0
    /\ procs' = [procs EXCEPT !.state = handleSkillSelection(@, procs.state.selectedSkills)]
    /\ WizFrame

WizToggleAgent ==
    \E agentType \in AgentTypes :
        /\ procs.open
        /\ procs.state.step = "agent-selection"
        /\ procs' = [procs EXCEPT !.state = toggledAgent(@, agentType)]
        /\ WizFrame

WizToggleAll ==
    /\ procs.open
    /\ procs.state.step = "agent-selection"
    /\ procs' = [procs EXCEPT !.state = toggledAll(@)]
    /\ WizFrame

\* Continue, offered with an agent selected
WizAgentsChosen ==
    /\ procs.open
    /\ procs.state.step = "agent-selection"
    /\ procs.state.selectedAgents # {}
    /\ procs' = [procs EXCEPT !.state = handleAgentSelection(@, procs.state.selectedAgents,
                                                             procs.scoped)]
    /\ WizFrame

\* Select Global, Select Project
WizScopeChosen ==
    \E scope \in { "global", "project" } :
        /\ procs.open
        /\ procs.state.step = "scope-selection"
        /\ procs' = [procs EXCEPT !.state = handleScopeSelection(@, scope, procs.scoped)]
        /\ WizFrame

\* Select Symlink, Select Copy
WizMethodChosen ==
    \E method \in Modes :
        /\ procs.open
        /\ procs.state.step = "method-selection"
        /\ procs' = [procs EXCEPT !.state = handleMethodSelection(@, method)]
        /\ WizFrame

\* Install: handleInstallation up to Promise.all
WizInstall ==
    /\ procs.open
    /\ procs.state.step = "summary"
    /\ IF installationStarts(procs.state)
           THEN /\ procs' = [procs EXCEPT !.state.isInstalling = TRUE,
                                          !.state.step = "installing",
                                          !.pending = procs.state.selectedAgents,
                                          !.results = NoResults]
                /\ steps' = 0
       ELSE UNCHANGED << procs, steps >>
    /\ UNCHANGED << arg, ret, fs, lock, last, clock, remote >>

\* one installSkillForAgent of Promise.all resolves, in any order; steps
\* counts the calls of the installation that have resolved
WizInstallTarget ==
    \E agentType \in procs.pending :
        /\ procs.state.step = "installing"
        /\ LET out == targetInstalled(fs, flowOf(procs), agentType, TRUE)
           IN  /\ fs' = out.fs
               /\ procs' = [procs EXCEPT !.pending = out.flow.pending,
                                         !.results = out.flow.results]
        /\ steps' = steps + 1
        /\ UNCHANGED << arg, ret, lock, last, clock, remote >>

\* Promise.all has resolved: the registry is written or the catch shows
\* the error, the state goes back to the summary, `finally` removes the
\* clone; after a success popToRoot leaves the wizard
WizFinish ==
    \E gitOk \in BOOLEAN :
        /\ procs.state.step = "installing"
        /\ allResolved(flowOf(procs))
        /\ LET out == installationEnded(fs, lock, procs, flowOf(procs),
                                        commitOf(fs, remote, flowOf(procs), gitOk), clock)
           IN  /\ fs' = out.fs
               /\ lock' = out.lock
               /\ procs' = [procs EXCEPT !.state = installationReset(@),
                                         !.open = out.threw]
               /\ clock' = IF out.threw THEN clock ELSE clock + 1
        /\ UNCHANGED << arg, ret, last, steps, remote >>

WizNext ==
    \/ WizLoad
    \/ WizContinue
    \/ WizToggleSkill
    \/ WizSkillsChosen
    \/ WizToggleAgent
    \/ WizToggleAll
    \/ WizAgentsChosen
    \/ WizScopeChosen
    \/ WizMethodChosen
    \/ WizInstall
    \/ WizInstallTarget
    \/ WizFinish

WizSpec == WizInit /\ [][WizNext]_vars

\* what WizInstallTarget does to the counter, and what WizFinish does to
\* the wizard: no other step of the wizard does either
TargetResolves ==
    /\ procs.state.step = "installing"
    /\ procs.pending # {}
    /\ steps' = steps + 1

InstallationSettles ==
    /\ procs.state.step = "installing"
    /\ procs.pending = {}
    /\ \E open \in BOOLEAN :
          procs' = [procs EXCEPT !.state = installationReset(@), !.open = open]

\* every call of installSkillForAgent resolves (it catches its errors) and
\* the continuation of handleInstallation runs: weak fairness of
\* WizInstallTarget and of WizFinish, stated on what they change
WizFair == WizSpec /\ WF_steps(TargetResolves) /\ WF_procs(InstallationSettles)

\* ========================================================================
\* Properties
\* ========================================================================
ValidOutChars == Lower \cup Digit \cup { ".", "_", "-" }

\* the raw name has no character that survives the stripping: every
\* character is a dot or outside [a-z0-9._] once lower-cased
NoCore(name) ==
    \A i \in 1..Len(name) : toLowerChar(name[i]) \notin Lower \cup Digit \cup { "_" }

\* C1: sanitizeName is idempotent: sanitizeName(sanitizeName(x)) equals
\* sanitizeName(x) for every raw name x, names longer than 255 characters
\* included.
C1_SanitizeIdempotent ==
    (arg.fn = "sanitizeName" /\ Len(ret) = 2) => ret[2] = ret[1]

\* C2: the output of sanitizeName is non-empty, at most 255 characters long
\* and made only of [a-z0-9._-]; the fallback token is returned when
\* stripping leaves the empty string, and only then (unless the name itself
\* sanitizes to the token).
C2_SanitizeOutputShape ==
    (arg.fn = "sanitizeName" /\ Len(ret) >= 1) =>
        LET out == ret[1]
        IN  /\ Len(out) >= 1
            /\ Len(out) <= MaxNameLen
            /\ \A i \in 1..Len(out) : out[i] \in ValidOutChars
            /\ NoCore(arg.name) => out = FallbackName
            /\ (out = FallbackName /\ ~NoCore(arg.name)) =>
                   toLowerCase(arg.name) \in
                       { FallbackName,
                         [i \in 1..Len(FallbackName) |->
                             IF FallbackName[i] = "-" THEN " " ELSE FallbackName[i]] }

\* a raw name longer than the limit was cut to exactly the limit
C2_Witness ==
    /\ arg.fn = "sanitizeName"
    /\ Len(ret) >= 1
    /\ Len(arg.name) > MaxNameLen
    /\ Len(ret[1]) = MaxNameLen

\* the candidate, once resolved, equals the resolved base or lies below it
Within(base, candidate) ==
    LET b == resolveSegs(base)
        c == resolveSegs(candidate)
    IN  Len(b) <= Len(c) /\ SubSeq(c, 1, Len(b)) = b

\* C3: isPathSafe returns true iff the candidate, once normalized and
\* resolved, equals base or lies strictly below it; this holds for both
\* isPathSafe predicates (installer and registry/matcher).
C3_IsPathSafeExact ==
    (arg.fn = "isPathSafe" /\ ret # NoRet) =>
        /\ ret[1].installer = Within(arg.base, arg.candidate)
        /\ ret[1].registry = Within(arg.base, arg.candidate)

\* ---- installSkillForAgent and listInstalledSkills (Spec) ----

\* the step is a call of installSkillForAgent
InstallStep == steps' = steps + 1 /\ last'.op = "install"

\* what a copy of a version of the skill holds: the files and directories
\* of the clone but README.md, metadata.json, .git and the names that start
\* with an underscore, at every depth
Installed(v) ==
    IF v = 1
        THEN (SKILL_MD :> File(Descriptor(MySkill, 1))) @@ (N_old :> File(Plain(1)))
             @@ (N_sub :> SubDir(N_old :> File(Plain(1))))
    ELSE (SKILL_MD :> File(Descriptor(MySkill, 2))) @@ (N_new :> File(Plain(2)))
         @@ (N_sub :> SubDir(N_new :> File(Plain(2))))

VersionOf(skill) == IF skill.path = SourceDir(1) THEN 1 ELSE 2

\* path is a directory of its own (no link) that holds the filtered source
RealCopy(fsys, path, skill) ==
    /\ path \in DOMAIN fsys
    /\ fsys[path] = Dir(Installed(VersionOf(skill)))

\* path leads, links followed, to a directory that holds the filtered source
HoldsExactly(fsys, path, skill) ==
    /\ statOk(fsys, path)
    /\ fsys[realpath(fsys, path)] = Dir(Installed(VersionOf(skill)))

\* the two destinations of the last install
LastCanonicalDir == canonicalDirOf(last.skill, last.options.global, cwdOr(last.options.cwd))
LastAgentDir ==
    agentDirOf(last.skill, last.agentType, last.options.global, cwdOr(last.options.cwd))

LastSupported == last.op = "install" /\ ~unsupportedScope(last.agentType, last.options.global)

\* C4: an install in global scope for an agent without global skills
\* directory returns success=false with the unsupported-scope error and
\* leaves the filesystem and the lock file as they were.
C4_UnsupportedScopeNoEffect ==
    [][(/\ InstallStep
        /\ last'.options.global
        /\ agents[last'.agentType].globalSkillsDir = Undefined)
       => /\ ~last'.result.success
          /\ last'.result.error = ErrUnsupportedScope
          /\ fs' = fs
          /\ lock' = lock]_vars

\* replit, which has no global directory, was asked for a global install
C4_Witness ==
    /\ last.op = "install"
    /\ last.agentType = "replit"
    /\ last.options.global
    /\ last.result.error = ErrUnsupportedScope

\* the symlink system call was reached by the last install (link mode): the
\* two paths differ and the agent path did not hold the right link already
LinkAttempted ==
    /\ resolve(LastCanonicalDir) # resolve(LastAgentDir)
    /\ ~(/\ last.prior.kind = "link"
         /\ resolveSymlinkTarget(LastAgentDir, last.prior.target) = resolve(LastCanonicalDir))

\* C6: a link-mode install whose symlink creation fails is reported as
\* success=true, mode=symlink, symlinkFailed=true with canonicalPath set,
\* and leaves at the agent path a directory of its own with the whole
\* filtered source (the canonical directory holds it too).
C6_FallbackYieldsCopy ==
    (/\ LastSupported
     /\ modeOr(last.options.mode) = "symlink"
     /\ ~last.symlinkOk
     /\ LinkAttempted)
    => /\ last.result = Result(TRUE, LastAgentDir, LastCanonicalDir, "symlink", TRUE, "")
       /\ RealCopy(fs, LastAgentDir, last.skill)
       /\ RealCopy(fs, LastCanonicalDir, last.skill)

\* the fallback ran over a link that pointed elsewhere
C6_Witness ==
    /\ last.op = "install"
    /\ last.result.success
    /\ last.result.symlinkFailed
    /\ last.prior.kind = "link"
    /\ RealCopy(fs, last.result.path, last.skill)

\* C7: after a link-mode install that reports success without
\* symlinkFailed, the canonical directory holds the filtered source and the
\* agent path resolves to the canonical directory, whatever lay at the
\* agent path before (nothing, the right link, a stale link, a broken link,
\* a directory).
C7_LinkResolvesToCanonical ==
    (/\ last.op = "install"
     /\ last.result.success
     /\ last.result.mode = "symlink"
     /\ ~last.result.symlinkFailed)
    => /\ RealCopy(fs, LastCanonicalDir, last.skill)
       /\ realpath(fs, LastAgentDir) = LastCanonicalDir
       /\ last.result.canonicalPath = LastCanonicalDir

\* a stale link was replaced by the link to the canonical directory
C7_Witness ==
    /\ last.op = "install"
    /\ last.result.success
    /\ last.result.mode = "symlink"
    /\ ~last.result.symlinkFailed
    /\ last.prior = StaleLink
    /\ fs[LastAgentDir].kind = "link"
    /\ realpath(fs, LastAgentDir) = LastCanonicalDir

\* path is base or lies below it
Under(base, path) == path = base \/ startsWith(path, base \o << "/" >>)

\* the two filesystems agree on base and on everything below it
SameUnder(f, g, base) ==
    \A k \in (DOMAIN f) \cup (DOMAIN g) :
        Under(base, k) => (k \in DOMAIN f /\ k \in DOMAIN g /\ f[k] = g[k])

\* a copy-mode step leaves the canonical skills directory of its scope as it
\* was and reports mode=copy without canonicalPath
CopyStepKeepsCanonical ==
    /\ SameUnder(fs, fs', getCanonicalSkillsDir(last'.options.global, cwdOr(last'.options.cwd)))
    /\ last'.result.mode = "copy"
    /\ last'.result.canonicalPath = Undefined

\* C8 (as stated): a copy-mode install never writes the canonical skills
\* directory of its scope and reports mode=copy without canonicalPath, for
\* every agent, those whose skills directory is the canonical one included.
C8_CopyNeverWritesCanonical ==
    [][(InstallStep /\ modeOr(last'.options.mode) = "copy") => CopyStepKeepsCanonical]_vars

\* C8 (amended): a copy-mode install for an agent whose skills directory in
\* the scope is not the canonical skills directory leaves the canonical
\* directory as it was and reports mode=copy without canonicalPath.
C8_CopyKeepsForeignCanonical ==
    [][(/\ InstallStep
        /\ modeOr(last'.options.mode) = "copy"
        /\ ~unsupportedScope(last'.agentType, last'.options.global)
        /\ resolve(agentBaseOf(last'.agentType, last'.options.global,
                               cwdOr(last'.options.cwd)))
             # resolve(getCanonicalSkillsDir(last'.options.global, cwdOr(last'.options.cwd))))
       => CopyStepKeepsCanonical]_vars

\* a copy for cursor next to a canonical directory that an earlier link-mode
\* install has populated
C8_Witness ==
    /\ last.op = "install"
    /\ last.agentType = "cursor"
    /\ last.result.success
    /\ last.result.mode = "copy"
    /\ fs[LastAgentDir].kind = "dir"
    /\ LastCanonicalDir \in DOMAIN fs

\* the step repeats the install that the last step made
RepeatedInstall ==
    /\ last.op = "install"
    /\ last'.skill = last.skill
    /\ last'.agentType = last.agentType
    /\ last'.options = last.options
    /\ last'.symlinkOk = last.symlinkOk

\* C9: install is idempotent and leaves no stale files: the same install
\* made twice leaves the filesystem of the first, and after a successful
\* install the destination holds the filtered source and nothing else,
\* whatever an earlier install or the user had left there.
C9_InstallIdempotentNoStale ==
    [][InstallStep
       => /\ last'.result.success => HoldsExactly(fs', last'.result.path, last'.skill)
          /\ RepeatedInstall => (fs' = fs /\ last'.result = last.result)]_vars

\* the second version was installed over a copy of the first
C9_Witness ==
    /\ last.op = "install"
    /\ last.result.success
    /\ VersionOf(last.skill) = 2
    /\ last.prior = Dir(Installed(1))
    /\ HoldsExactly(fs, last.result.path, last.skill)

\* the listing of the scope of the last install, every agent detected
ListingAfterInstall ==
    listInstalledSkills(fs, lock, AgentTypes,
        [global |-> IF last.options.global THEN "true" ELSE "false",
         cwd |-> last.options.cwd,
         agentFilter |-> [given |-> FALSE, list |-> {}]],
        << MySkillDir >>)

\* C10: after a successful install of a skill for an agent in a scope, link
\* mode or copy mode, listInstalledSkills of that scope returns a view of
\* the skill with that scope and with the agent among its agents.
C10_InstalledIsListed ==
    (last.op = "install" /\ last.result.success)
    => \E view \in ListingAfterInstall :
           /\ view.name = last.skill.name
           /\ view.scope = (IF last.options.global THEN "global" ELSE "project")
           /\ last.agentType \in view.agents

\* ---- the lock file (RegSpec) ----

\* the file is one of those the reader is to take for absent: missing, no
\* JSON, no numeric version, no map of entries, a version before the current
Defective(file) ==
    IF file.missing THEN TRUE
    ELSE \/ file.json # "value"
         \/ ~file.versionIsNumber
         \/ file.skillsKind \in { "absent", "falsy" }
         \/ file.version < CURRENT_VERSION

\* a fresh empty document
IsFreshEmpty(doc) ==
    /\ doc.version = CURRENT_VERSION
    /\ doc.skillsKind = "map"
    /\ doc.skills = NoEntries
    /\ doc.lastSelectedAgents = Undefined
    /\ doc.dismissed = "undefined"

C12_ReadHasCurrentVersion ==
    last.op = "read" => ret[1].version = CURRENT_VERSION

\* C13: addSkillToLock(n, m) followed by getSkillLockEntry(n) returns the
\* entry just written, for every raw name n, and removeSkillFromLock(n)
\* then removes it.
C13_AddThenGetThenRemove ==
    (last.op = "add" /\ ~last.threw)
    => /\ getSkillLockEntry(lock, last.name) # NullEntry
       /\ getSkillLockEntry(lock, last.name).sourceUrl = last.metadata.sourceUrl
       /\ getSkillLockEntry(lock, last.name).updatedAt = last.now
       /\ \A k \in DOMAIN readSkillLock(removeSkillFromLock(lock, last.name)).skills :
              sanitizeName(k) # sanitizeName(last.name)

\* the step is a call of addSkillToLock that did not throw
AddStep == steps' = steps + 1 /\ last'.op = "add" /\ ~last'.threw

\* installedAt <= updatedAt in every entry of the document read from a file
TimesOrdered(file) ==
    LET doc == readSkillLock(file)
    IN  \A k \in DOMAIN doc.skills : doc.skills[k].installedAt <= doc.skills[k].updatedAt

\* C14: across addSkillToLock calls for the same skill the entry keeps the
\* installedAt of the first call and takes the updatedAt of the latest one:
\* a call that finds an entry under the name leaves its installedAt and
\* sets updatedAt to its own time, a call that finds none sets both to its
\* own time; installedAt <= updatedAt in every entry at every time.
C14_InstalledAtKept ==
    [][/\ AddStep
          => LET before == entryAt(readSkillLock(lock), last'.name)
                 after == entryAt(readSkillLock(lock'), last'.name)
             IN  /\ after.updatedAt = last'.now
                 /\ after.installedAt =
                        (IF before = NullEntry THEN last'.now ELSE before.installedAt)
       /\ TimesOrdered(lock')]_vars

\* a second call, later than the first of this behaviour, for one name
C14_Witness ==
    /\ last.op = "add"
    /\ ~last.threw
    /\ entryAt(readSkillLock(lock), last.name).installedAt = StartTime + 1
    /\ entryAt(readSkillLock(lock), last.name).updatedAt = StartTime + 2

\* the step is a call of removeSkillFromLock
RemoveStep == steps' = steps + 1 /\ last'.op = "remove"

\* C15: getSkillLockEntry of a name without entry returns null;
\* removeSkillFromLock of a name, with or without entry, leaves the entries
\* under the other names and lastSelectedAgents and dismissed as they were
\* read, and getSkillLockEntry of the name is null afterwards.
C15_RemoveKeepsTheRest ==
    [][/\ (steps' = steps + 1 /\ last'.op = "get" /\ ~last'.found) => ret' = << NullEntry >>
       /\ RemoveStep
          => LET before == readSkillLock(lock)
                 after == readSkillLock(lock')
                 others == (DOMAIN before.skills) \ { sanitizeName(last'.name) }
             IN  /\ DOMAIN after.skills = others
                 /\ \A k \in others : after.skills[k] = before.skills[k]
                 /\ after.lastSelectedAgents = before.lastSelectedAgents
                 /\ after.dismissed = before.dismissed
                 /\ after.version = before.version
                 /\ getSkillLockEntry(lock', last'.name) = NullEntry]_vars

\* a name without entry was removed from a file with entries and both
\* auxiliary fields
C15_Witness ==
    /\ last.op = "remove"
    /\ ~last.found
    /\ readSkillLock(lock).skills = OldEntries
    /\ readSkillLock(lock).lastSelectedAgents # Undefined
    /\ readSkillLock(lock).dismissed # "undefined"

\* ---- concurrent cycles on the lock file (RaceSpec) ----

\* the document holds the change of a cycle
HoldsUpdate(doc, proc) ==
    IF proc.kind = "add"
        THEN /\ entryAt(doc, proc.name).updatedAt = proc.now
             /\ entryAt(doc, proc.name).sourceUrl = proc.metadata.sourceUrl
             /\ entryAt(doc, proc.name).skillFolderHash = proc.metadata.skillFolderHash
    ELSE doc.lastSelectedAgents = proc.agentTypes

\* two adds for different skills, or an add and a saveSelectedAgents
DifferentTargets(a, b) ==
    \/ (a.kind = "add" /\ b.kind = "add" /\ a.name # b.name)
    \/ (a.kind = "add" /\ b.kind = "save")
    \/ (a.kind = "save" /\ b.kind = "add")

\* both cycles have completed, q wrote last and had read the file before p
\* wrote it; what p changed was not in the document q read
Raced(p, q) ==
    /\ p # q
    /\ procs[p].pc = "done"
    /\ procs[q].pc = "done"
    /\ last = [op |-> "write", p |-> q]
    /\ procs[q].stale
    /\ DifferentTargets(procs[p], procs[q])
    /\ ~HoldsUpdate(procs[q].base, procs[p])

\* C16: the registry has no locking: when two read-modify-write cycles
\* (two addSkillToLock for different skills, or addSkillToLock and
\* saveSelectedAgents) overlap, both complete without error and the file
\* at the end lacks the update of the cycle that wrote first (the last
\* writer wins).
C16_LastWriterWins ==
    \A p \in Processes, q \in Processes :
        Raced(p, q) => /\ HoldsUpdate(readSkillLock(lock), procs[q])
                       /\ ~HoldsUpdate(readSkillLock(lock), procs[p])

\* two adds for different skills overlapped and the entry of the first
\* writer is not in the file
C16_Witness ==
    /\ Raced(1, 2)
    /\ procs[1].kind = "add"
    /\ procs[2].kind = "add"
    /\ entryAt(readSkillLock(lock), procs[1].name) = NullEntry
    /\ entryAt(readSkillLock(lock), procs[2].name) # NullEntry

\* the scopes the last listing went through
ListedScopes ==
    IF last.options.global = "undefined" THEN { FALSE, TRUE }
    ELSE { last.options.global = "true" }

ScopeName(isGlobal) == IF isGlobal THEN "global" ELSE "project"

\* dir is a directory that holds a descriptor with a name and a description
CarriesDescriptor(dir) ==
    /\ dir \in DOMAIN fs
    /\ fs[dir].kind = "dir"
    /\ SKILL_MD \in DOMAIN fs[dir].entries
    /\ ~fs[dir].entries[SKILL_MD].isDirectory
    /\ fs[dir].entries[SKILL_MD].content.name # << >>
    /\ fs[dir].entries[SKILL_MD].content.description # << >>

ListedAt(dir, isGlobal) ==
    \E view \in last.views : view.path = dir /\ view.scope = ScopeName(isGlobal)

InRegistry(name) ==
    LET doc == readSkillLock(lock)
    IN  doc.skillsKind = "map" /\ name \in DOMAIN doc.skills

\* C17: after listInstalledSkills a skill is listed for a scope it went
\* through exactly when the canonical directory of the scope has an
\* immediate subdirectory whose descriptor carries a name and a description,
\* whether or not the registry has an entry for it; a view of a skill
\* without registry entry has no provenance, and nothing else is listed
C17_CanonicalDirectoryIsTruth ==
    last.op = "list" =>
        /\ \A isGlobal \in ListedScopes :
              \A entry \in readdir(fs, getCanonicalSkillsDir(isGlobal, ProcessCwd)) :
                  LET dir == join2(getCanonicalSkillsDir(isGlobal, ProcessCwd), entry.name)
                  IN  ListedAt(dir, isGlobal) <=> CarriesDescriptor(dir)
        /\ \A view \in last.views :
              /\ \E isGlobal \in ListedScopes :
                    /\ view.scope = ScopeName(isGlobal)
                    /\ dirname(view.path) = getCanonicalSkillsDir(isGlobal, ProcessCwd)
              /\ ~InRegistry(sanitizeName(view.name)) =>
                    /\ view.sourceUrl = Undefined
                    /\ view.installedAt = 0
                    /\ view.updatedAt = 0

\* some entry strictly below the agent's base corresponds to the skill of
\* the view: it has the name of the canonical entry, the sanitized declared
\* name or the loose slug, or it is a directory whose descriptor declares
\* the same name
Corresponds(agentType, view) ==
    LET agentBase == agentBaseOf(agentType, view.scope = "global", ProcessCwd)
    IN  /\ statOk(fs, agentBase)
        /\ \E agentEntry \in readdir(fs, agentBase) :
              LET candidateDir == join2(agentBase, agentEntry.name)
              IN  \/ /\ agentEntry.name \in { basename(view.path), sanitizeName(view.name),
                                              looseSlug(view.name) }
                     /\ statOk(fs, candidateDir)
                  \/ /\ agentEntry.isDirectory
                     /\ CarriesDescriptor(candidateDir)
                     /\ fs[candidateDir].entries[SKILL_MD].content.name = view.name

\* C18: an agent is among the agents of a view exactly when it is detected,
\* passes the agent filter, has a global skills directory if the view is of
\* the global scope, and an entry strictly below its base corresponds to
\* the skill; no agent is reported for a skill none of its entries
\* corresponds to
C18_AgentsAreThoseHoldingTheSkill ==
    last.op = "list" =>
        \A view \in last.views : \A agentType \in AgentTypes :
            agentType \in view.agents <=>
                /\ agentType \in last.detectedAgents
                /\ last.options.agentFilter.given =>
                      agentType \in last.options.agentFilter.list
                /\ view.scope = "global" => agents[agentType].globalSkillsDir # Undefined
                /\ Corresponds(agentType, view)

\* what the claim asks of a status: nothing reported without both
\* fingerprints, else an update exactly when they differ, of type content
StatusByFingerprints(status) ==
    /\ (~status.localHash.present \/ ~status.remoteHash.present) =>
          ~status.hasUpdate /\ status.updateType = "none"
    /\ (status.localHash.present /\ status.remoteHash.present) =>
          /\ status.hasUpdate <=> status.localHash # status.remoteHash
          /\ status.updateType = IF status.hasUpdate THEN "content" ELSE "none"

\* C19: the status checkForUpdates returns has hasUpdate = false and
\* updateType = none when a fingerprint is absent; with both present
\* hasUpdate says whether they differ and updateType is content or none,
\* never a value of a commit comparison; this of both checkForUpdates of the
\* repository
C19_StatusFromFingerprints ==
    last.op = "check" =>
        /\ StatusByFingerprints(last.byContent)
        /\ StatusByFingerprints(last.byCommit)

\* the descriptor installed for cursor in the project under the name
InstalledDescriptor(name) ==
    treeAt(fs, join2(agentBaseOf("cursor", FALSE, ProcessCwd), sanitizeName(name)))[SKILL_MD].content

\* the descriptor of the skill of that name at the source
SourceDescriptor(name) ==
    IF remote.root # NoContent /\ remote.root.name = name THEN remote.root
    ELSE remote.subs[CHOOSE i \in DOMAIN remote.subs : remote.subs[i].content.name = name].content

AtSource(name) ==
    \/ remote.root # NoContent /\ remote.root.name = name
    \/ \E i \in DOMAIN remote.subs : remote.subs[i].content.name = name

CheckOfInstalled ==
    /\ last.op = "check"
    /\ last.commit = remote.commit
    /\ last.cloneOk
    /\ last.installs[last.name] # "none"
    /\ AtSource(last.name)

\* C20: checkForUpdates of a skill installed from the source, in either
\* mode and from a repository of one or of several skills, reports an
\* update exactly when the descriptor of the skill at the source differs
\* from the installed one
C20_UpdateIffDescriptorDiffers ==
    CheckOfInstalled =>
        /\ last.byContent.hasUpdate <=> SourceDescriptor(last.name) # InstalledDescriptor(last.name)
        /\ last.byCommit.hasUpdate <=> SourceDescriptor(last.name) # InstalledDescriptor(last.name)

\* the path is the temp root or below it
InTempRoot(path) == path = TmpDir \/ startsWith(path, TmpDir \o << "/" >>)

\* the directory and everything below it
Below(fsys, dir) == { k \in DOMAIN fsys : k = dir \/ startsWith(k, dir \o << "/" >>) }

\* C21: when computeRemoteSkillHash or getRemoteCommitHash has returned,
\* the temporary directory of the call does not exist and nothing below it
\* does, whether the clone failed, nothing was discovered, git could not
\* tell the commit or a fingerprint was returned; everything else is as the
\* call found it
C21_FingerprintCleansItsClone ==
    last.op \in { "computeRemoteSkillHash", "getRemoteCommitHash" } =>
        /\ Below(fs, last.dir) = {}
        /\ \A k \in DOMAIN last.before : k \in DOMAIN fs /\ fs[k] = last.before[k]
        /\ DOMAIN fs \subseteq DOMAIN last.before

\* while a flow holds a clone, a second clone succeeded and held a skill,
\* but not under the path asked for: nothing was discovered, and the second
\* clone is gone
C21_Witness ==
    /\ last.op = "computeRemoteSkillHash"
    /\ last.cloneOk
    /\ ~last.present
    /\ remote # EmptyRepo
    /\ TmpClone \in DOMAIN fs
    /\ last.dir = TmpClone2
    /\ TmpClone2 \notin DOMAIN fs

\* C23: cleanupTempDir of a path whose location is not the temp root or
\* below it throws and removes nothing; of a path in the temp root where
\* nothing is, it succeeds and changes nothing; and whatever the path, what
\* lies outside the temp root is as it was
C23_CleanupStaysInTempRoot ==
    last.op = "cleanupTempDir" =>
        /\ ~InTempRoot(located(last.dir)) => ~last.ok /\ fs = last.before
        /\ (InTempRoot(located(last.dir)) /\ located(last.dir) \notin DOMAIN last.before) =>
              last.ok /\ fs = last.before
        /\ \A k \in DOMAIN last.before :
              ~InTempRoot(k) => k \in DOMAIN fs /\ fs[k] = last.before[k]

\* the temporary directories there are
TempDirs(fsys) == { k \in DOMAIN fsys : startsWith(k, TmpDir \o << "/" >>) }

\* C22: when an install flow (installSkill, InstallFlow, reinstallSkill) has
\* ended, however it ended, no temporary directory is left: the clone the
\* flow made has been cleaned up
C22_FlowsCleanTheirClone ==
    procs.pc = "done" => TempDirs(fs) = {}

\* Promise.all of the flow has resolved and the flow has run to its end, or
\* (InstallFlow) back to the summary
FlowOver ==
    \/ procs.pc = "done"
    \/ procs.pc = "summary" /\ procs.outcome = "threw"

\* the registry entry of the flow's skill was written by the flow
Recorded == getSkillLockEntry(lock, procs.skill.name).updatedAt >= StartTime

\* C24: when the installs of a flow have all resolved and the flow is over,
\* and at least one of the installs succeeded, the registry entry of the
\* skill has been written, whether or not other targets failed
C24_PartialSuccessIsRecorded ==
    (FlowOver /\ successful(procs) # {}) => Recorded

\* C25: installSkill installs to the agents it would install to if
\* lastSelectedAgents were absent, whatever the registry holds there, and
\* for no other agent does it touch the agent's directory of the skill
C25_LastSelectedHasNoEffect ==
    (procs.kind = "installSkill" /\ procs.skill # NullDiscovered) =>
        LET chosen == selectAgents(last.detectedAgents, Undefined)
        IN  /\ procs.targets = chosen
            /\ \A a \in AgentTypes \ chosen :
                  ~unsupportedScope(a, TRUE) =>
                      nodeAt(fs, agentDirOf(procs.skill, a, TRUE, ProcessCwd))
                          = nodeAt(last.fsBefore, agentDirOf(procs.skill, a, TRUE, ProcessCwd))

\* C27: the registry entry an install or reinstall flow has written holds
\* the content fingerprint of the descriptor installed (skillFolderHash),
\* and source, sourceType, sourceUrl, installedAt and updatedAt
C27_EntryCarriesContentFingerprint ==
    (procs.outcome = "installed") =>
        LET entry == getSkillLockEntry(lock, procs.skill.name)
        IN  /\ entry.skillFolderHash # Undefined
            /\ entry.source # Undefined
            /\ entry.sourceType # Undefined
            /\ entry.sourceUrl # Undefined
            /\ entry.installedAt > 0
            /\ entry.updatedAt > 0

IoFailed(result) ==
    /\ ~result.success
    /\ result.error \notin { ErrUnsupportedScope, ErrPathTraversal }

\* the directory the install cleared and created before it copied
ClearedDir(agentType) ==
    IF procs.mode = "copy" THEN agentDirOf(procs.skill, agentType, procs.isGlobal, ProcessCwd)
    ELSE canonicalDirOf(procs.skill, procs.isGlobal, ProcessCwd)

OutsideTemp(fsys) == [k \in { p \in DOMAIN fsys : ~InTempRoot(p) } |-> fsys[k]]

\* C26: no step of listInstalledSkills, checkForUpdates or
\* getSkillInstallState changes the registry file or anything outside the
\* temp root (the canonical directories, the agents' directories), whether
\* the registry is in good order, missing, broken or of a stale version
C26_ReadingIsReadOnly ==
    [][lock' = lock /\ OutsideTemp(fs') = OutsideTemp(fs)]_vars

\* with a broken registry file, a check has cloned the source and found an
\* update for the installed skill
C26_Witness ==
    /\ ~lock.missing
    /\ lock.json = "invalid"
    /\ fs = InstalledFs
    /\ last.op = "checkForUpdates"
    /\ last.cloneOk
    /\ last.status = "update_available"

\* C28: after a confirmed deleteSkill from all agents the registry entry of
\* the skill is gone, its canonical directory is gone, no agent the view
\* reported still holds a directory or link corresponding to the skill, and
\* the list loaded afterwards has no view of that name in that scope; a
\* deleteSkill from one agent leaves the registry file as it was
C28_DeleteRemovesEverywhere ==
    (last.op = "deleteSkill" /\ last.confirmed) =>
        IF last.agentType = "undefined"
            THEN /\ getSkillLockEntry(lock, last.skill.name) = NullEntry
                 /\ ~lstatOk(fs, last.skill.canonicalPath)
                 /\ \A agentType \in last.skill.agents : ~Corresponds(agentType, last.skill)
                 /\ \A view \in last.views :
                       ~(view.name = last.skill.name /\ view.scope = last.skill.scope)
        ELSE lock = last.lockBefore

\* C31: in every interleaving of link-mode installs of one skill for
\* different agents, every call that has returned has succeeded and has
\* not fallen back to a copy, as each does when it runs alone
C31_ParallelInstallsDoNotInterfere ==
    \A a \in DOMAIN procs :
        procs[a].pc = "returned" =>
            procs[a].result.success /\ ~procs[a].result.symlinkFailed

AllSucceeded ==
    \A a \in DOMAIN procs : procs[a].pc = "returned" /\ procs[a].result.success

\* C32: once all the parallel link-mode installs have returned success,
\* the canonical directory holds exactly the source without the excluded
\* entries, and the path of every agent leads to that directory
C32_ParallelInstallsLeaveCompleteContent ==
    (procs # NoProcs /\ AllSucceeded) =>
        /\ ParCanonicalDir \in DOMAIN fs
        /\ fs[ParCanonicalDir] = Dir(ParWanted)
        /\ \A a \in DOMAIN procs : realpath(fs, ParAgentDir(a)) = ParCanonicalDir

\* all calls have returned success, and one of them removed entries of the
\* canonical directory after another had written files into it
C32_Witness ==
    /\ procs # NoProcs
    /\ AllSucceeded
    /\ last.op = "overlap"

\* the entries the specification leaves out of a copy
NonEssential(name, isDirectory) ==
    \/ name = N_readme
    \/ name = N_metadata
    \/ Head(name) = "_"
    \/ (isDirectory /\ name = N_git)

\* the tree without those entries, at every depth
RECURSIVE Essential(_)
Essential(tree) ==
    [n \in { n \in DOMAIN tree : ~NonEssential(n, tree[n].isDirectory) } |->
        IF tree[n].isDirectory THEN SubDir(Essential(tree[n].entries)) ELSE tree[n]]

\* the directories an install has written: the agent's in copy mode, the
\* canonical one in link mode, both after a fallback
WrittenDirs(result) ==
    IF result.mode = "copy" THEN { result.path }
    ELSE IF result.symlinkFailed THEN { result.path, result.canonicalPath }
    ELSE { result.canonicalPath }

HeldBy(fsys, agentType, isGlobal) ==
    [k \in { k \in DOMAIN fsys :
                startsWith(k, agentBaseOf(agentType, isGlobal, ProcessCwd) \o << "/" >>) } |->
        [node |-> fsys[k],
         leadsTo |-> IF statOk(fsys, k) THEN fsys[realpath(fsys, k)] ELSE NoNode]]

\* C34: a confirmed deleteSkill from one agent leaves the canonical
\* directory of the skill as it was, and leaves what every other agent the
\* view reported holds, and what that resolves to, as it was; also for an
\* agent whose skills directory is the canonical skills directory
C34_DeleteFromOneAgentKeepsTheRest ==
    [][(last'.op = "deleteSkill" /\ last'.confirmed /\ last'.agentType # "undefined") =>
          /\ nodeAt(fs', last'.skill.canonicalPath) = nodeAt(fs, last'.skill.canonicalPath)
          /\ \A agentType \in last'.skill.agents \ { last'.agentType } :
                HeldBy(fs', agentType, last'.skill.scope = "global")
                    = HeldBy(fs, agentType, last'.skill.scope = "global")]_vars

\* the skill declared as name is installed in the scope: its canonical
\* directory or the directory of one of the agents holds its descriptor
HoldsSkill(fsys, dir, name) ==
    /\ statOk(fsys, dir)
    /\ fsys[realpath(fsys, dir)].kind = "dir"
    /\ SKILL_MD \in DOMAIN treeAt(fsys, dir)
    /\ treeAt(fsys, dir)[SKILL_MD].content.name = name

\* what is installed for the skill declared as name: its canonical
\* directory and its directory with each agent, in both scopes, where they
\* hold the skill, and its registry entry
InstalledFor(fsys, file, name) ==
    [dirs |-> [dir \in { dir \in { join2(getCanonicalSkillsDir(g, ProcessCwd), sanitizeName(name)) :
                                     g \in BOOLEAN }
                                 \cup { join2(agentBaseOf(a, FALSE, ProcessCwd), sanitizeName(name)) :
                                          a \in AgentTypes }
                                 \cup { join2(agentBaseOf(a, TRUE, ProcessCwd), sanitizeName(name)) :
                                          a \in { "cursor", "amp" } } :
                           HoldsSkill(fsys, dir, name) } |->
                  [node |-> fsys[dir], tree |-> treeAt(fsys, dir)]],
     entry |-> getSkillLockEntry(file, name)]

DeclaredNames == { MySkill, ColonSkill, OtherSkill }

\* C35: installing and recording a skill leaves what is installed for
\* every skill of another declared name as it was: the canonical content,
\* the agents' directories and the registry entry, also when the two names
\* have the same sanitized form
C35_InstallLeavesOtherSkillsAlone ==
    [][last'.op = "install" =>
          \A name \in DeclaredNames \ { last'.skill.name } :
              LET before == InstalledFor(fs, lock, name)
                  after == InstalledFor(fs', lock', name)
              IN  /\ \A dir \in DOMAIN before.dirs :
                        dir \in DOMAIN after.dirs /\ after.dirs[dir] = before.dirs[dir]
                  /\ (DOMAIN before.dirs # {} => after.entry = before.entry)]_vars

\* ------------------------------------------------------------------------
\* C36
\* ------------------------------------------------------------------------
\* path is one segment below base
StrictChild(base, path) ==
    /\ path # resolve(base)
    /\ dirname(resolve(path)) = resolve(base)

\* the paths whose entry a step has made, changed or removed
Touched(before, after) ==
    { p \in DOMAIN before \cup DOMAIN after : nodeAt(before, p) # nodeAt(after, p) }

\* p is dir or above it
Above(p, dir) == Under(p, dir)

\* C36: for every declared name, also one made of or containing "..", "/",
\* "\" or only characters that are stripped, the canonical and the agent
\* destination of installSkillForAgent, getInstallPath and getCanonicalPath
\* are one segment below their base directories; a call clears and writes
\* nothing but the two destinations (and makes the missing directories
\* above them), and no call ends with the path-traversal error
C36_DestinationsStayWithinBases ==
    [][last'.op = "install" =>
          LET skill == last'.skill
              options == last'.options
              agentType == last'.agentType
              cwd == cwdOr(options.cwd)
              canonicalBase == getCanonicalSkillsDir(options.global, cwd)
              canonicalDir == canonicalDirOf(skill, options.global, cwd)
              agentDir == getInstallPath(skill.name, agentType, options)
          IN  /\ StrictChild(canonicalBase, canonicalDir)
              /\ getCanonicalPath(skill.name, options) = canonicalDir
              /\ ~getCanonicalPathThrows(skill.name, options)
              /\ StrictChild(targetBaseOf(agentType, options), agentDir)
              /\ ~getInstallPathThrows(skill.name, agentType, options)
              /\ ~unsupportedScope(agentType, options.global) =>
                    /\ agentDirOf(skill, agentType, options.global, cwd) = agentDir
                    /\ last'.result.path = agentDir
              /\ last'.result.error # ErrPathTraversal
              /\ \A p \in Touched(fs, fs') :
                    \/ Under(canonicalDir, p)
                    \/ Under(agentDir, p)
                    \/ /\ Above(p, canonicalDir) \/ Above(p, agentDir)
                       /\ p \notin DOMAIN fs
                       /\ fs'[p] = Dir(EmptyEntries)]_vars

\* a name that is ".." behind a separator has been installed over an
\* earlier installation
C36_Witness ==
    /\ arg.fn = "destinations"
    /\ arg.name = << ".", ".", "/" >>
    /\ steps = 2
    /\ last.op = "install"
    /\ last.result.success

\* ------------------------------------------------------------------------
\* C37
\* ------------------------------------------------------------------------
\* C37: whenever a call of installSkillForAgent made by the wizard
\* resolves, the directory of the skill it installs from is there: no
\* Install from the summary, after an attempt has ended and removed the
\* clone, clears or overwrites an installation from a missing source
C37_WizardInstallsFromPresentSource ==
    [][(procs.kind = "InstallFlow" /\ procs.pc = "installing"
        /\ procs'.pending # procs.pending) =>
          statOk(fs, procs.skill.path)]_vars

\* ------------------------------------------------------------------------
\* C38
\* ------------------------------------------------------------------------
StepIndex(step) == CHOOSE i \in DOMAIN WizardSteps : WizardSteps[i] = step

\* the moves of the wizard: each step to the next, the steps in
\* parentheses left out or not, and from the installation back to the
\* summary
StepMoves ==
    { << "metadata", "skill-selection" >>, << "metadata", "agent-selection" >>,
      << "skill-selection", "agent-selection" >>,
      << "agent-selection", "scope-selection" >>,
      << "agent-selection", "method-selection" >>,
      << "scope-selection", "method-selection" >>,
      << "method-selection", "summary" >>,
      << "summary", "installing" >>,
      << "installing", "summary" >> }

WizardInOrder ==
    /\ StepIndex(procs.state.step) >= StepIndex("agent-selection") =>
          Len(procs.state.selectedSkills) > 0
    /\ procs.state.step = "installing" =>
          /\ procs.state.selectedAgents # {}
          /\ procs.state.tempDir # Undefined
    /\ procs.state.isInstalling => procs.state.step = "installing"

WizardBackAtSummary == procs.state.step = "summary" /\ ~procs.state.isInstalling

\* C38: the wizard moves from step to step in the order metadata,
\* (skill-selection), agent-selection, (scope-selection), method-selection,
\* summary, installing; from agent-selection on a skill is selected; an
\* installation starts with an agent selected and a temp directory in the
\* state only; isInstalling is set during the step installing only; and
\* every installation that has started comes back to the summary with
\* isInstalling reset, whether it succeeded or failed
C38_WizardStateMachine ==
    /\ []WizardInOrder
    /\ [][procs'.state.step # procs.state.step =>
             << procs.state.step, procs'.state.step >> \in StepMoves]_vars
    /\ (procs.state.step = "installing") ~> WizardBackAtSummary

\* an installation of two selected skills has failed in the build that
\* asks for the scope, and the wizard is back at the summary
C38_Witness ==
    /\ procs.scoped
    /\ Len(procs.state.selectedSkills) = 2
    /\ procs.state.scope = "project"
    /\ WizardBackAtSummary
    /\ \E a \in DOMAIN procs.results : ~procs.results[a].success
    /\ procs.open

\* ------------------------------------------------------------------------
\* C39
\* ------------------------------------------------------------------------
\* C39: the registry tracks global installs only: no step of a wizard whose
\* scope is the project creates or changes the registry file
C39_ProjectInstallLeavesRegistry ==
    [][(procs.state.step = "installing" /\ procs.state.scope = "project") =>
          lock' = lock]_vars

\* ------------------------------------------------------------------------
\* C40
\* ------------------------------------------------------------------------
\* C40: once the wizard has installed and closed, every selected skill is
\* there for every selected agent, in the scope chosen, and has its entry
\* in the registry
C40_EverySelectedSkillIsInstalled ==
    (procs.loaded /\ ~procs.open) =>
        \A i \in DOMAIN procs.state.selectedSkills :
            /\ \A agentType \in procs.state.selectedAgents :
                  HoldsSkill(fs, agentDirOf(procs.state.selectedSkills[i], agentType,
                                            procs.state.scope = "global", ProcessCwd),
                             procs.state.selectedSkills[i].name)
            /\ entryAt(readSkillLock(lock),
                       sanitizeName(procs.state.selectedSkills[i].name)) # NullEntry

====
